---------------------------- MODULE Spec2Model ----------------------------
(***************************************************************************)
(* SecureKeyManager (src/SECURITY.md, listing of secure-key-manager.js)    *)
(* and HuggingFaceMultiGenerator (src/hf-api-integration.js).              *)
(*                                                                         *)
(* Strings are sequences of UTF-16 code units, byte arrays are sequences   *)
(* of 0..255.  The codecs the code calls (TextEncoder, TextDecoder, btoa,  *)
(* atob) are computed as the platform computes them.  The cryptographic    *)
(* primitives are idealised in the usual symbolic way:                     *)
(*   - PBKDF2-HMAC-SHA-256 is an injective function of (HMAC key block,    *)
(*     salt, iterations, hash, key length): no hash collisions;            *)
(*   - AES-GCM is a deterministic function of (key, iv, plaintext) whose   *)
(*     values are revealed when first computed (the table aead), and       *)
(*     decryption accepts exactly the ciphertexts encryption has produced  *)
(*     under that key and iv: no tag forgeries;                            *)
(*   - crypto.getRandomValues never repeats an output.                     *)
(***************************************************************************)
EXTENDS Integers, Sequences, FiniteSets, TLC

VARIABLES
    rng,    \* number of draws crypto.getRandomValues has served
    aead,   \* AES-GCM values computed so far: [key, iv, pt, ct]
    encs,   \* log of the encryptKey calls that returned a blob
    last,   \* the call whose outcome the caller is being handed, if any
    manager,        \* the fields of the SecureKeyManager
    localStorage,   \* the store behind the global localStorage
    slotLog,        \* what the storage accessors were last asked to write
    generator,      \* the key fields of the HuggingFaceMultiGenerator
    requests,       \* the HTTP requests fetch has issued
    keyLog,         \* the last call that gave or took the generator's key
    tasks,          \* the encryptKey / decryptKey calls in flight
    batch           \* the generateWithAllModels / saveAllImages call in flight

storeVars == <<localStorage, slotLog>>
generatorVars == <<generator, requests, keyLog>>

vars == <<rng, aead, encs, last, manager, storeVars, generatorVars, tasks, batch>>

-----------------------------------------------------------------------------
(* Bounds of the exploration. *)

MaxSecretLen == 1
MaxPasswordLen == 2
MaxEncrypts == 2
MaxRequests == 1

(* Code units the inputs are built from: 'h', U+FEFF (byte order mark),    *)
(* U+D800 (an unpaired high surrogate) for secrets; 'p' and U+0000 for     *)
(* passwords.                                                               *)
SecretUnits == {104, 65279, 55296}
PasswordUnits == {112, 0}

RECURSIVE StringsUpTo(_, _)
StringsUpTo(units, n) ==
    IF n = 0 THEN {<<>>}
    ELSE LET shorter == StringsUpTo(units, n - 1)
         IN  shorter \cup {Append(s, u) : s \in shorter, u \in units}

Secrets == StringsUpTo(SecretUnits, MaxSecretLen)
Passwords == StringsUpTo(PasswordUnits, MaxPasswordLen)

-----------------------------------------------------------------------------
(* Program constants. *)

SaltLength == 16
IvLength == 12
KeyLength == 256
Iterations == 100000
TagLength == 16
HmacBlock == 64

ErrEncryptRequired == "API key and password are required"
ErrDecryptRequired == "Encrypted key and password are required"
ErrDecryptFailed == "Decryption failed. Invalid password or corrupted data."

Min(a, b) == IF a < b THEN a ELSE b

(* TypedArray.prototype.slice(begin, end) with 0 <= begin <= end. *)
Slice(bytes, begin, end) == SubSeq(bytes, begin + 1, Min(end, Len(bytes)))

-----------------------------------------------------------------------------
(* TextEncoder.encode: the string is first converted to a USVString       *)
(* (every unpaired surrogate becomes U+FFFD), then encoded as UTF-8.       *)

IsHighSurrogate(u) == u >= 55296 /\ u <= 56319
IsLowSurrogate(u) == u >= 56320 /\ u <= 57343

Utf8Bytes(cp) ==
    IF cp < 128 THEN <<cp>>
    ELSE IF cp < 2048 THEN <<192 + (cp \div 64), 128 + (cp % 64)>>
    ELSE IF cp < 65536
         THEN <<224 + (cp \div 4096), 128 + ((cp \div 64) % 64), 128 + (cp % 64)>>
    ELSE <<240 + (cp \div 262144), 128 + ((cp \div 4096) % 64),
           128 + ((cp \div 64) % 64), 128 + (cp % 64)>>

RECURSIVE Utf8EncodeFrom(_, _)
Utf8EncodeFrom(s, i) ==
    IF i > Len(s) THEN <<>>
    ELSE IF IsHighSurrogate(s[i]) /\ i < Len(s) /\ IsLowSurrogate(s[i + 1])
         THEN Utf8Bytes(65536 + (s[i] - 55296) * 1024 + (s[i + 1] - 56320))
                  \o Utf8EncodeFrom(s, i + 2)
    ELSE IF IsHighSurrogate(s[i]) \/ IsLowSurrogate(s[i])
         THEN Utf8Bytes(65533) \o Utf8EncodeFrom(s, i + 1)
    ELSE Utf8Bytes(s[i]) \o Utf8EncodeFrom(s, i + 1)

TextEncode(s) == Utf8EncodeFrom(s, 1)

-----------------------------------------------------------------------------
(* new TextDecoder().decode: UTF-8, not fatal (a malformed sequence        *)
(* decodes to U+FFFD), ignoreBOM false (a leading EF BB BF is dropped).    *)

CodeUnits(cp) ==
    IF cp < 65536 THEN <<cp>>
    ELSE <<55296 + ((cp - 65536) \div 1024), 56320 + ((cp - 65536) % 1024)>>

(* Continuation bytes still needed after lead byte b; 0 for a bad lead. *)
Utf8Needed(b) ==
    IF b >= 194 /\ b <= 223 THEN 1
    ELSE IF b >= 224 /\ b <= 239 THEN 2
    ELSE IF b >= 240 /\ b <= 244 THEN 3
    ELSE 0

Utf8Lower(b) == IF b = 224 THEN 160 ELSE IF b = 240 THEN 144 ELSE 128
Utf8Upper(b) == IF b = 237 THEN 159 ELSE IF b = 244 THEN 143 ELSE 191
Utf8LeadBits(b) == IF b <= 223 THEN b - 192 ELSE IF b <= 239 THEN b - 224 ELSE b - 240

RECURSIVE Utf8DecodeFrom(_, _)
RECURSIVE Utf8Continue(_, _, _, _, _, _)

(* In the middle of a sequence: cp holds the bits read, need the number of *)
(* continuation bytes missing, lower..upper the range of the next one.     *)
Utf8Continue(b, i, cp, need, lower, upper) ==
    IF need = 0 THEN CodeUnits(cp) \o Utf8DecodeFrom(b, i)
    ELSE IF i > Len(b) THEN <<65533>>
    ELSE IF b[i] < lower \/ b[i] > upper THEN <<65533>> \o Utf8DecodeFrom(b, i)
    ELSE Utf8Continue(b, i + 1, cp * 64 + (b[i] - 128), need - 1, 128, 191)

Utf8DecodeFrom(b, i) ==
    IF i > Len(b) THEN <<>>
    ELSE IF b[i] < 128 THEN <<b[i]>> \o Utf8DecodeFrom(b, i + 1)
    ELSE IF Utf8Needed(b[i]) = 0 THEN <<65533>> \o Utf8DecodeFrom(b, i + 1)
    ELSE Utf8Continue(b, i + 1, Utf8LeadBits(b[i]), Utf8Needed(b[i]),
                      Utf8Lower(b[i]), Utf8Upper(b[i]))

HasBom(b) == Len(b) >= 3 /\ b[1] = 239 /\ b[2] = 187 /\ b[3] = 191

TextDecode(b) == IF HasBom(b) THEN Utf8DecodeFrom(b, 4) ELSE Utf8DecodeFrom(b, 1)

-----------------------------------------------------------------------------
(* btoa and atob on binary strings (code units 0..255).                    *)

B64Char(v) ==
    IF v < 26 THEN 65 + v
    ELSE IF v < 52 THEN 97 + (v - 26)
    ELSE IF v < 62 THEN 48 + (v - 52)
    ELSE IF v = 62 THEN 43
    ELSE 47

(* The 6-bit value of a base64 character, -1 for any other character. *)
B64Val(c) ==
    IF c >= 65 /\ c <= 90 THEN c - 65
    ELSE IF c >= 97 /\ c <= 122 THEN c - 97 + 26
    ELSE IF c >= 48 /\ c <= 57 THEN c - 48 + 52
    ELSE IF c = 43 THEN 62
    ELSE IF c = 47 THEN 63
    ELSE -1

(* btoa: every 3 bytes give 4 characters; a last group of 1 or 2 bytes is *)
(* padded with '='.  ByteAt reads past the end as 0.                       *)
ByteAt(b, k) == IF k <= Len(b) THEN b[k] ELSE 0

BtoaChar(b, k) ==
    LET g == 3 * ((k - 1) \div 4)
        r == (k - 1) % 4
    IN  IF r = 0 THEN B64Char(b[g + 1] \div 4)
        ELSE IF r = 1 THEN B64Char((b[g + 1] % 4) * 16 + (ByteAt(b, g + 2) \div 16))
        ELSE IF r = 2
             THEN IF g + 2 > Len(b) THEN 61
                  ELSE B64Char((b[g + 2] % 16) * 4 + (ByteAt(b, g + 3) \div 64))
        ELSE IF g + 3 > Len(b) THEN 61 ELSE B64Char(b[g + 3] % 64)

Btoa(binary) == [k \in 1..(4 * ((Len(binary) + 2) \div 3)) |-> BtoaChar(binary, k)]

IsAsciiWhitespace(c) == c \in {9, 10, 12, 13, 32}

StripWhitespace(t) == SelectSeq(t, LAMBDA c : ~IsAsciiWhitespace(c))

StripPadding(t) ==
    IF Len(t) % 4 = 0 /\ Len(t) >= 2 /\ t[Len(t)] = 61 /\ t[Len(t) - 1] = 61
    THEN SubSeq(t, 1, Len(t) - 2)
    ELSE IF Len(t) % 4 = 0 /\ Len(t) >= 1 /\ t[Len(t)] = 61
    THEN SubSeq(t, 1, Len(t) - 1)
    ELSE t

(* Byte k of the decoded data: 4 characters give 3 bytes, the bits left   *)
(* over by a last group of 2 or 3 characters are dropped.                  *)
AtobByte(t, k) ==
    LET g == 4 * ((k - 1) \div 3)
        r == (k - 1) % 3
    IN  IF r = 0 THEN B64Val(t[g + 1]) * 4 + (B64Val(t[g + 2]) \div 16)
        ELSE IF r = 1 THEN (B64Val(t[g + 2]) % 16) * 16 + (B64Val(t[g + 3]) \div 4)
        ELSE (B64Val(t[g + 3]) % 4) * 64 + B64Val(t[g + 4])

AtobLength(t) == 3 * (Len(t) \div 4) + (IF Len(t) % 4 = 0 THEN 0 ELSE (Len(t) % 4) - 1)

(* atob: the forgiving-base64 decode; [ok |-> FALSE] is the                *)
(* InvalidCharacterError it throws.                                        *)
Atob(text) ==
    LET t == StripPadding(StripWhitespace(text))
    IN  IF Len(t) % 4 = 1 \/ \E i \in 1..Len(t) : B64Val(t[i]) = -1
        THEN [ok |-> FALSE, bytes |-> <<>>]
        ELSE [ok |-> TRUE, bytes |-> [k \in 1..AtobLength(t) |-> AtobByte(t, k)]]

-----------------------------------------------------------------------------
(* crypto.getRandomValues(new Uint8Array(length)), the draw-th draw: the   *)
(* ideal source never returns the same bytes twice.                        *)
GetRandomValues(length, draw) ==
    [i \in 1..length |-> (draw * 97 + i * 31) % 256]

(* HMAC's key block: a key of at most one block is padded with zero bytes  *)
(* to the block length, a longer one is hashed first.                      *)
HmacKeyBlock(keyBytes) ==
    IF Len(keyBytes) <= HmacBlock
    THEN [hashed |-> FALSE,
          block |-> [i \in 1..HmacBlock |-> ByteAt(keyBytes, i)]]
    ELSE [hashed |-> TRUE, block |-> keyBytes]

(* deriveKey: importKey('raw', encoder.encode(password), 'PBKDF2') then    *)
(* deriveKey with PBKDF2 / SHA-256 / 100000 iterations to an AES-GCM key.  *)
DeriveKey(password, salt) ==
    [algorithm |-> manager.algorithm,
     length |-> manager.keyLength,
     hash |-> "SHA-256",
     iterations |-> Iterations,
     hmacKey |-> HmacKeyBlock(TextEncode(password)),
     salt |-> salt]

(* crypto.subtle.encrypt({name: 'AES-GCM', iv}, key, data): ciphertext     *)
(* followed by the 128-bit tag.                                            *)
AeadKnown(key, iv, pt) == {e \in aead : e.key = key /\ e.iv = iv /\ e.pt = pt}

FreshCiphertext(length) ==
    [i \in 1..length |-> (Cardinality(aead) * 89 + i * 7 + 3) % 256]

AesGcmEncrypt(key, iv, pt) ==
    IF AeadKnown(key, iv, pt) # {}
    THEN (CHOOSE e \in AeadKnown(key, iv, pt) : TRUE).ct
    ELSE FreshCiphertext(Len(pt) + TagLength)

(* AesGcmDecryptUnauthenticated deciphers without verifying the tag, as a  *)
(* cipher mode without authentication would.                               *)
AesGcmDecryptUnauthenticated(key, iv, data) ==
    LET hits == {e \in aead : e.key = key /\ e.iv = iv /\ Len(e.ct) = Len(data)}
    IN  IF hits = {}
        THEN [ok |-> FALSE, pt |-> <<>>]
        ELSE [ok |-> TRUE, pt |-> (CHOOSE e \in hits : TRUE).pt]

(* crypto.subtle.decrypt: OperationError ([ok |-> FALSE]) when the data    *)
(* is shorter than the tag or the tag does not verify.                     *)
AesGcmDecrypt(key, iv, data) ==
    LET hits == {e \in aead : e.key = key /\ e.iv = iv /\ e.ct = data}
    IN  IF Len(data) < TagLength \/ hits = {}
        THEN [ok |-> FALSE, pt |-> <<>>]
        ELSE [ok |-> TRUE, pt |-> (CHOOSE e \in hits : TRUE).pt]

(* arrayBufferToBase64 / base64ToArrayBuffer.  Base64ToArrayBufferLenient *)
(* decodes with a decoder that skips what is not base64 and never throws.  *)
ArrayBufferToBase64(buffer) == Btoa(buffer)

Base64ToArrayBufferLenient(base64) ==
    LET kept == SelectSeq(base64, LAMBDA c : B64Val(c) # -1)
        t == IF Len(kept) % 4 = 1 THEN SubSeq(kept, 1, Len(kept) - 1) ELSE kept
    IN  [ok |-> TRUE, bytes |-> [k \in 1..AtobLength(t) |-> AtobByte(t, k)]]

Base64ToArrayBuffer(base64) == Atob(base64)

-----------------------------------------------------------------------------
(* encryptKey(apiKey, password). *)

(* if (!apiKey || !password); EncryptGuardKeyOnly forgets the password. *)
EncryptGuardKeyOnly(apiKey, password) == apiKey = <<>>

EncryptGuard(apiKey, password) == apiKey = <<>> \/ password = <<>>

(* combined.set(salt, 0); combined.set(iv, salt.length); combined.set(     *)
(* encryptedData, salt.length + iv.length).  EncryptCombinedIvFirst lays   *)
(* the iv before the salt.                                                 *)
EncryptCombinedIvFirst(salt, iv, encryptedData) == iv \o salt \o encryptedData

EncryptCombined(salt, iv, encryptedData) == salt \o iv \o encryptedData

(* The salt and the iv of one call, the random source having served draw   *)
(* draws: two fresh draws.  EncryptNoncesReused draws them once and keeps  *)
(* them for every call; EncryptNoncesIvReused keeps the iv only.          *)
EncryptNoncesReused(draw) ==
    [salt |-> GetRandomValues(SaltLength, 0), iv |-> GetRandomValues(IvLength, 1)]

EncryptNoncesIvReused(draw) ==
    [salt |-> GetRandomValues(SaltLength, draw), iv |-> GetRandomValues(IvLength, 1)]

EncryptNonces(draw) ==
    [salt |-> GetRandomValues(SaltLength, draw),
     iv |-> GetRandomValues(manager.ivLength, draw + 1)]

EncryptKey(apiKey, password) ==
    IF EncryptGuard(apiKey, password)
    THEN [ok |-> FALSE, error |-> ErrEncryptRequired, value |-> <<>>,
          draws |-> 0, computed |-> {}]
    ELSE LET salt == EncryptNonces(rng).salt
             iv == EncryptNonces(rng).iv
             key == DeriveKey(password, salt)
             pt == TextEncode(apiKey)
             encryptedData == AesGcmEncrypt(key, iv, pt)
             combined == EncryptCombined(salt, iv, encryptedData)
         IN  [ok |-> TRUE, error |-> "", value |-> ArrayBufferToBase64(combined),
              draws |-> 2,
              computed |-> {[key |-> key, iv |-> iv, pt |-> pt, ct |-> encryptedData]}]

(* decryptKey(encryptedKey, password). *)

(* if (!encryptedKey || !password); DecryptGuardPasswordOnly forgets the   *)
(* blob.                                                                   *)
DecryptGuardPasswordOnly(encryptedKey, password) == password = <<>>

DecryptGuard(encryptedKey, password) == encryptedKey = <<>> \/ password = <<>>
DecryptSalt(combined) == Slice(combined, 0, SaltLength)
DecryptIv(combined) == Slice(combined, SaltLength, SaltLength + manager.ivLength)
DecryptData(combined) == Slice(combined, SaltLength + manager.ivLength, Len(combined))
(* catch (error) { throw new Error('Decryption failed. ...') };           *)
(* DecryptCaughtRethrown throws the error it caught instead.               *)
DecryptCaughtRethrown == [ok |-> FALSE, error |-> "OperationError", value |-> <<>>]

DecryptCaught == [ok |-> FALSE, error |-> ErrDecryptFailed, value |-> <<>>]

(* DecryptKeyTelling is decryptKey with a catch block that tells a data    *)
(* problem from a password problem.                                        *)
DecryptKeyTelling(encryptedKey, password) ==
    IF DecryptGuard(encryptedKey, password)
    THEN [ok |-> FALSE, error |-> ErrDecryptRequired, value |-> <<>>]
    ELSE LET decoded == Base64ToArrayBuffer(encryptedKey)
             combined == decoded.bytes
             key == DeriveKey(password, DecryptSalt(combined))
             decryptedData == AesGcmDecrypt(key, DecryptIv(combined), DecryptData(combined))
             sameData == \E e \in aead : /\ e.iv = DecryptIv(combined)
                                          /\ e.ct = DecryptData(combined)
                                          /\ e.key.salt = DecryptSalt(combined)
         IN  IF ~decoded.ok THEN DecryptCaught
             ELSE IF ~decryptedData.ok
                  THEN [ok |-> FALSE,
                        error |-> IF sameData THEN "Invalid password" ELSE "Corrupted data",
                        value |-> <<>>]
             ELSE [ok |-> TRUE, error |-> "", value |-> TextDecode(decryptedData.pt)]

(* DecryptKeyRetained is decryptKey with the key of an earlier call kept   *)
(* in place of the one derived from its password.                          *)
DecryptKeyRetained(encryptedKey, password) ==
    IF DecryptGuard(encryptedKey, password)
    THEN [ok |-> FALSE, error |-> ErrDecryptRequired, value |-> <<>>]
    ELSE LET decoded == Base64ToArrayBuffer(encryptedKey)
             combined == decoded.bytes
             key == IF aead = {}
                    THEN DeriveKey(password, DecryptSalt(combined))
                    ELSE (CHOOSE e \in aead : TRUE).key
             decryptedData == AesGcmDecrypt(key, DecryptIv(combined), DecryptData(combined))
         IN  IF ~decoded.ok THEN DecryptCaught
             ELSE IF ~decryptedData.ok THEN DecryptCaught
             ELSE [ok |-> TRUE, error |-> "", value |-> TextDecode(decryptedData.pt)]

DecryptKey(encryptedKey, password) ==
    IF DecryptGuard(encryptedKey, password)
    THEN [ok |-> FALSE, error |-> ErrDecryptRequired, value |-> <<>>]
    ELSE LET decoded == Base64ToArrayBuffer(encryptedKey)
             combined == decoded.bytes
             key == DeriveKey(password, DecryptSalt(combined))
             decryptedData == AesGcmDecrypt(key, DecryptIv(combined), DecryptData(combined))
         IN  IF ~decoded.ok THEN DecryptCaught
             ELSE IF ~decryptedData.ok THEN DecryptCaught
             ELSE [ok |-> TRUE, error |-> "", value |-> TextDecode(decryptedData.pt)]

-----------------------------------------------------------------------------
(* The callers' inputs. *)

(* One byte of a byte array flipped. *)
Tamper(bytes, i) == [bytes EXCEPT ![i] = 255 - @]

Calls == 1..Len(encs)
Blobs == {encs[k].blob : k \in Calls}

(* Texts handed to decryptKey: the blobs, each blob with one decoded byte  *)
(* flipped, each blob cut short, texts atob rejects, texts atob forgives.  *)
TamperedOf(blob) ==
    LET bytes == Atob(blob).bytes
    IN  {Btoa(Tamper(bytes, i)) : i \in 1..Len(bytes)}

TruncatedOf(blob) ==
    LET bytes == Atob(blob).bytes
    IN  {Btoa(SubSeq(bytes, 1, n)) : n \in 0..(Len(bytes) - 1)}

VariantsOf(blob) ==
    {<<32>> \o blob, blob \o <<65>>, [blob EXCEPT ![1] = 33]}

WholeTexts ==
    {<<>>, <<33, 33, 33, 33>>, <<65>>} \cup Blobs \cup UNION {VariantsOf(b) : b \in Blobs}

(* The (text, password) pairs decryptKey is called with: a whole text      *)
(* under any password, an altered blob under the password it was made      *)
(* with or under no password.                                              *)
DecryptInputs ==
    (WholeTexts \X Passwords)
        \cup UNION {(TamperedOf(encs[k].blob) \cup TruncatedOf(encs[k].blob))
                        \X {encs[k].password, <<>>} : k \in Calls}

-----------------------------------------------------------------------------
(* JavaScript values other than the strings above: strings that must be   *)
(* told from null and undefined are wrapped.                               *)
Null == [type |-> "null"]
Undefined == [type |-> "undefined"]
Str(chars) == [type |-> "string", chars |-> chars]
Bool(b) == [type |-> "boolean", value |-> b]

(* No generateWithAllModels or saveAllImages call is in flight. *)
NoBatch == [op |-> "none"]

(* new SecureKeyManager(). *)
NewSecureKeyManager ==
    [algorithm |-> "AES-GCM", keyLength |-> KeyLength, ivLength |-> IvLength]

(* The browser's Storage object with nothing stored.  kind tells it from   *)
(* the object test-api.js puts in its place.                               *)
EmptyStorage == [kind |-> "Storage", item |-> Null]

(* new HuggingFaceMultiGenerator(): apiKey = null, options = {}. *)
NewGenerator == [apiKey |-> Null, isEncrypted |-> FALSE, keyValidator |-> TRUE]

InitManager ==
    /\ rng = 0
    /\ aead = {}
    /\ encs = <<>>
    /\ last = [op |-> "none"]
    /\ manager = NewSecureKeyManager
    /\ slotLog = [written |-> Null, failed |-> FALSE]
    /\ requests = {}
    /\ keyLog = [call |-> "constructor", key |-> Null]
    /\ tasks = <<>>
    /\ batch = NoBatch

Init ==
    /\ InitManager
    /\ localStorage = EmptyStorage
    /\ generator = NewGenerator

Idle == last.op = "none"

(* EncryptKeyStepStoring is encryptKey keeping its blob in the store. *)
EncryptKeyStepStoring(apiKey, password) ==
    LET r == EncryptKey(apiKey, password)
    IN  /\ rng' = rng + r.draws
        /\ aead' = aead \cup r.computed
        /\ encs' = IF r.ok
                   THEN Append(encs, [apiKey |-> apiKey, password |-> password,
                                       blob |-> r.value])
                   ELSE encs
        /\ last' = [op |-> "encryptKey", apiKey |-> apiKey, password |-> password,
                    ok |-> r.ok, error |-> r.error, value |-> r.value,
                    rngBefore |-> rng]
        /\ localStorage' = [localStorage EXCEPT !.item = [type |-> "string", chars |-> r.value]]
        /\ UNCHANGED <<manager, slotLog, generatorVars, tasks, batch>>

EncryptKeyStep(apiKey, password) ==
    LET r == EncryptKey(apiKey, password)
    IN  /\ rng' = rng + r.draws
        /\ aead' = aead \cup r.computed
        /\ encs' = IF r.ok
                   THEN Append(encs, [apiKey |-> apiKey, password |-> password,
                                       blob |-> r.value])
                   ELSE encs
        /\ last' = [op |-> "encryptKey", apiKey |-> apiKey, password |-> password,
                    ok |-> r.ok, error |-> r.error, value |-> r.value,
                    rngBefore |-> rng]
        /\ UNCHANGED <<manager, storeVars, generatorVars, tasks, batch>>

(* The first encryptKey call, with any secret and any password. *)
FirstEncryptKeyCall ==
    /\ Idle
    /\ encs = <<>>
    /\ \E apiKey \in Secrets, password \in Passwords : EncryptKeyStep(apiKey, password)

(* A further encryptKey call: the secret and the password of an earlier    *)
(* call, or another secret, or another password.                           *)
RepeatEncryptKeyCall ==
    /\ Idle
    /\ encs # <<>>
    /\ Len(encs) < MaxEncrypts
    /\ \E k \in Calls :
          \E apiKey \in {encs[k].apiKey, <<104>>}, password \in {encs[k].password, <<112>>} :
              EncryptKeyStep(apiKey, password)

DecryptKeyCall ==
    /\ Idle
    /\ \E in \in DecryptInputs :
          LET r == DecryptKey(in[1], in[2])
          IN  last' = [op |-> "decryptKey", encryptedKey |-> in[1], password |-> in[2],
                       ok |-> r.ok, error |-> r.error, value |-> r.value]
    /\ UNCHANGED <<rng, aead, encs>>
    /\ UNCHANGED <<manager, storeVars, generatorVars, tasks, batch>>

(* The caller takes the outcome of the call (the promise settles) and is   *)
(* free to call again.                                                     *)
Settle ==
    /\ ~Idle
    /\ last' = [op |-> "none"]
    /\ UNCHANGED <<rng, aead, encs>>
    /\ UNCHANGED <<manager, storeVars, generatorVars, tasks, batch>>

(* One secret is encrypted and the blob is then decrypted, as stored or    *)
(* altered.                                                                *)
Next == FirstEncryptKeyCall \/ DecryptKeyCall \/ Settle

Spec == Init /\ [][Next]_vars

(* A sequence of encryptKey calls. *)
NextEncrypts == FirstEncryptKeyCall \/ RepeatEncryptKeyCall \/ Settle

SpecEncrypts == Init /\ [][NextEncrypts]_vars

-----------------------------------------------------------------------------
(* The storage accessors of SecureKeyManager and the store they call.      *)
(* One key is ever used, 'hf_encrypted_key'; item is what is stored under  *)
(* it, Null when nothing is.                                               *)

(* test-api.js: localStorage = { storage: {}, setItem, getItem, removeItem }. *)
TestStorage == [kind |-> "double", item |-> Null]

(* !v. *)
Falsy(v) == v = Null \/ v = Undefined \/ v = Str(<<>>) \/ v = Bool(FALSE)

(* setItem(key, value): both stores keep the string they are given. *)
SetItem(store, value) == [store EXCEPT !.item = value]

(* getItem(key): Storage returns the item or null; the test object         *)
(* returns this.storage[key] || null.                                      *)
GetItem(store) ==
    IF store.kind = "double" /\ Falsy(store.item) THEN Null ELSE store.item

(* removeItem(key) / delete this.storage[key]. *)
RemoveItem(store) == [store EXCEPT !.item = Null]

(* Whether a call on the store may throw (QuotaExceededError on a write,   *)
(* SecurityError when storage is disabled): the browser's Storage may, the *)
(* test object never does.                                                 *)
StoreThrows == IF localStorage.kind = "Storage" THEN BOOLEAN ELSE {FALSE}

ErrStoreFailed == "Failed to store encrypted key:"
ErrRetrieveFailed == "Failed to retrieve encrypted key:"
ErrClearFailed == "Failed to clear encrypted key:"

(* storeEncryptedKey(encryptedKey): try { setItem; return true }           *)
(* catch { console.error; return false }.  threw says what was thrown to   *)
(* the caller, logged what was written to the console, accesses how many   *)
(* times the store was called.                                             *)
StoreEncryptedKey(encryptedKey, throws) ==
    IF throws
    THEN [value |-> Bool(FALSE), threw |-> "", logged |-> <<ErrStoreFailed>>,
          accesses |-> 1, store |-> localStorage]
    ELSE [value |-> Bool(TRUE), threw |-> "", logged |-> <<>>,
          accesses |-> 1, store |-> SetItem(localStorage, encryptedKey)]

(* getStoredEncryptedKey(): try { return getItem } catch { console.error;  *)
(* return null }.  GetStoredEncryptedKeyThrowing lets the error through.   *)
GetStoredEncryptedKeyThrowing(throws) ==
    IF throws
    THEN [value |-> Undefined, threw |-> "PersistenceError", logged |-> <<>>,
          accesses |-> 1, store |-> localStorage]
    ELSE [value |-> GetItem(localStorage), threw |-> "", logged |-> <<>>,
          accesses |-> 1, store |-> localStorage]

GetStoredEncryptedKey(throws) ==
    IF throws
    THEN [value |-> Null, threw |-> "", logged |-> <<ErrRetrieveFailed>>,
          accesses |-> 1, store |-> localStorage]
    ELSE [value |-> GetItem(localStorage), threw |-> "", logged |-> <<>>,
          accesses |-> 1, store |-> localStorage]

(* clearStoredKey(): try { removeItem; return true } catch { console.error; *)
(* return false }.                                                         *)
ClearStoredKey(throws) ==
    IF throws
    THEN [value |-> Bool(FALSE), threw |-> "", logged |-> <<ErrClearFailed>>,
          accesses |-> 1, store |-> localStorage]
    ELSE [value |-> Bool(TRUE), threw |-> "", logged |-> <<>>,
          accesses |-> 1, store |-> RemoveItem(localStorage)]

(* Values handed to storeEncryptedKey: the blobs encryptKey returned, the  *)
(* text 'blob', the empty string.                                          *)
StoreValues ==
    {Str(<<>>), Str(<<98, 108, 111, 98>>)} \cup {Str(b) : b \in Blobs}

StoreEncryptedKeyCall ==
    /\ Idle
    /\ \E encryptedKey \in StoreValues, throws \in StoreThrows :
          LET r == StoreEncryptedKey(encryptedKey, throws)
          IN  /\ localStorage' = r.store
              /\ slotLog' = [written |-> encryptedKey,
                             failed |-> slotLog.failed \/ throws]
              /\ last' = [op |-> "storeEncryptedKey", encryptedKey |-> encryptedKey,
                          failed |-> throws, value |-> r.value, threw |-> r.threw,
                          logged |-> r.logged, accesses |-> r.accesses]
    /\ UNCHANGED <<rng, aead, encs, manager, generatorVars, tasks, batch>>

GetStoredEncryptedKeyCall ==
    /\ Idle
    /\ \E throws \in StoreThrows :
          LET r == GetStoredEncryptedKey(throws)
          IN  /\ localStorage' = r.store
              /\ slotLog' = [slotLog EXCEPT !.failed = @ \/ throws]
              /\ last' = [op |-> "getStoredEncryptedKey",
                          failed |-> throws, value |-> r.value, threw |-> r.threw,
                          logged |-> r.logged, accesses |-> r.accesses]
    /\ UNCHANGED <<rng, aead, encs, manager, generatorVars, tasks, batch>>

ClearStoredKeyCall ==
    /\ Idle
    /\ \E throws \in StoreThrows :
          LET r == ClearStoredKey(throws)
          IN  /\ localStorage' = r.store
              /\ slotLog' = [written |-> Null, failed |-> slotLog.failed \/ throws]
              /\ last' = [op |-> "clearStoredKey",
                          failed |-> throws, value |-> r.value, threw |-> r.threw,
                          logged |-> r.logged, accesses |-> r.accesses]
    /\ UNCHANGED <<rng, aead, encs, manager, generatorVars, tasks, batch>>

-----------------------------------------------------------------------------
(* The key format check: /^hf_[A-Za-z0-9]{30,}$/.test(apiKey).            *)

MinKeyTail == 30

IsAlnum(c) == (c >= 65 /\ c <= 90) \/ (c >= 97 /\ c <= 122) \/ (c >= 48 /\ c <= 57)

(* The length of the run of [A-Za-z0-9] that starts at position i. *)
RECURSIVE AlnumRun(_, _)
AlnumRun(chars, i) ==
    IF i > Len(chars) \/ ~IsAlnum(chars[i]) THEN 0 ELSE 1 + AlnumRun(chars, i + 1)

StartsWithHf(chars) ==
    Len(chars) >= 3 /\ chars[1] = 104 /\ chars[2] = 102 /\ chars[3] = 95

(* HfKeyPatternUnanchored is the pattern without its closing $. *)
HfKeyPatternUnanchored(chars) ==
    StartsWithHf(chars) /\ AlnumRun(chars, 4) >= MinKeyTail

(* ^ and $ without the m flag match at the two ends of the text only; the  *)
(* greedy run must reach the end.                                          *)
HfKeyPattern(chars) ==
    /\ StartsWithHf(chars)
    /\ AlnumRun(chars, 4) >= MinKeyTail
    /\ 3 + AlnumRun(chars, 4) = Len(chars)

(* SecureKeyManager.validateApiKey(apiKey). *)
ValidateApiKey(apiKey) ==
    [value |-> Bool(HfKeyPattern(apiKey)), threw |-> "", logged |-> <<>>]

ErrKeyRequired == "API key is required"
WarnKeyFormat ==
    "Warning: API key format may be invalid. HuggingFace keys typically start with \"hf_\""

(* HuggingFaceMultiGenerator.validateApiKey(apiKey): throws when !apiKey,  *)
(* warns when the pattern does not match, returns true.                    *)
(* GeneratorValidateApiKeyStrict throws where the other warns.             *)
GeneratorValidateApiKeyStrict(apiKey) ==
    IF Falsy(apiKey)
    THEN [value |-> Undefined, threw |-> ErrKeyRequired, logged |-> <<>>]
    ELSE IF HfKeyPattern(apiKey.chars)
    THEN [value |-> Bool(TRUE), threw |-> "", logged |-> <<>>]
    ELSE [value |-> Undefined, threw |-> "Invalid API key format", logged |-> <<>>]

GeneratorValidateApiKey(apiKey) ==
    IF Falsy(apiKey)
    THEN [value |-> Undefined, threw |-> ErrKeyRequired, logged |-> <<>>]
    ELSE [value |-> Bool(TRUE), threw |-> "",
          logged |-> IF HfKeyPattern(apiKey.chars) THEN <<>> ELSE <<WarnKeyFormat>>]

(* The candidate keys the validators are called with: a prefix, a run of   *)
(* one character, a suffix; 'garbage'; a key with '!' in its middle; a     *)
(* key after a space; the empty string.                                    *)
MaxTailExtra == 5

Repeat(c, n) == [i \in 1..n |-> c]
Garbage == <<103, 97, 114, 98, 97, 103, 101>>
KeyPrefixes == {<<104, 102, 95>>, <<104, 102, 45>>, <<72, 70, 95>>}
TailUnits == {97, 90, 57, 95}
KeySuffixes == {<<>>, <<10>>}

Candidates ==
    {pre \o Repeat(c, n) \o suf :
        pre \in KeyPrefixes, c \in TailUnits,
        n \in (MinKeyTail - 1)..(MinKeyTail + MaxTailExtra), suf \in KeySuffixes}
      \cup {Garbage, <<>>,
            <<104, 102, 95>> \o Repeat(97, 15) \o <<33>> \o Repeat(97, 15),
            <<32, 104, 102, 95>> \o Repeat(97, MinKeyTail)}

ValidateApiKeyCall ==
    /\ Idle
    /\ \E apiKey \in Candidates :
          LET r == ValidateApiKey(apiKey)
          IN  last' = [op |-> "validateApiKey", apiKey |-> Str(apiKey),
                       value |-> r.value, threw |-> r.threw, logged |-> r.logged]
    /\ UNCHANGED <<rng, aead, encs, manager, storeVars, generatorVars, tasks, batch>>

GeneratorValidateApiKeyCall ==
    /\ Idle
    /\ \E apiKey \in {Str(c) : c \in Candidates} \cup {Null, Undefined} :
          LET r == GeneratorValidateApiKey(apiKey)
          IN  last' = [op |-> "generator.validateApiKey", apiKey |-> apiKey,
                       value |-> r.value, threw |-> r.threw, logged |-> r.logged]
    /\ UNCHANGED <<rng, aead, encs, manager, storeVars, generatorVars, tasks, batch>>

(* The two validators called on candidate keys. *)
NextValidate == ValidateApiKeyCall \/ GeneratorValidateApiKeyCall \/ Settle

SpecValidate == Init /\ [][NextValidate]_vars

-----------------------------------------------------------------------------
(* HuggingFaceMultiGenerator: the API key it holds. *)

(* A key of the expected format and the values a caller may hand over as   *)
(* a key.                                                                  *)
ConformingToken == <<104, 102, 95>> \o Repeat(97, MinKeyTail)
KeyValues == {Null, Undefined, Str(<<>>), Str(ConformingToken), Str(Garbage)}

(* The keys handed to the generator: those values and, once encryptKey has *)
(* returned a blob, the blob.                                              *)
KeysOffered == KeyValues \cup {Str(b) : b \in Blobs}

(* constructor(apiKey = null, options = {}): the generator made and what   *)
(* the construction wrote to the console.                                  *)
Constructor(apiKey, isEncrypted, validateKey) ==
    LET key == IF Falsy(apiKey) THEN Null ELSE apiKey
        made == [apiKey |-> key, isEncrypted |-> isEncrypted,
                 keyValidator |-> validateKey]
        validated == ~Falsy(key) /\ validateKey /\ ~isEncrypted
    IN  [generator |-> made, threw |-> "", validated |-> validated,
         logged |-> IF validated THEN GeneratorValidateApiKey(key).logged ELSE <<>>]

(* setApiKey(apiKey, isEncrypted = false): the fields are assigned, then   *)
(* the key is validated, which may throw.  SetApiKeyValidatingFirst       *)
(* validates before it assigns.                                            *)
SetApiKeyValidatingFirst(apiKey, isEncrypted) ==
    LET set == [generator EXCEPT !.apiKey = apiKey, !.isEncrypted = isEncrypted]
        validated == ~isEncrypted /\ generator.keyValidator
        checked == IF validated
                   THEN GeneratorValidateApiKey(apiKey)
                   ELSE [value |-> Bool(TRUE), threw |-> "", logged |-> <<>>]
    IN  [generator |-> IF checked.threw = "" THEN set ELSE generator,
         threw |-> checked.threw, logged |-> checked.logged,
         validated |-> validated,
         value |-> IF checked.threw = "" THEN Bool(TRUE) ELSE Undefined]

SetApiKey(apiKey, isEncrypted) ==
    LET set == [generator EXCEPT !.apiKey = apiKey, !.isEncrypted = isEncrypted]
        validated == ~isEncrypted /\ generator.keyValidator
        checked == IF validated
                   THEN GeneratorValidateApiKey(apiKey)
                   ELSE [value |-> Bool(TRUE), threw |-> "", logged |-> <<>>]
    IN  [generator |-> set, threw |-> checked.threw, logged |-> checked.logged,
         validated |-> validated,
         value |-> IF checked.threw = "" THEN Bool(TRUE) ELSE Undefined]

(* hasApiKey(): this.apiKey !== null && this.apiKey !== ''. *)
HasApiKey == generator.apiKey # Null /\ generator.apiKey # Str(<<>>)

(* clearApiKey(). *)
ClearApiKey == [generator EXCEPT !.apiKey = Null, !.isEncrypted = FALSE]

ConstructorCall ==
    /\ Idle
    /\ \E apiKey \in KeysOffered, isEncrypted \in BOOLEAN, validateKey \in BOOLEAN :
          LET r == Constructor(apiKey, isEncrypted, validateKey)
          IN  /\ generator' = r.generator
              /\ keyLog' = [call |-> "constructor", key |-> apiKey]
              /\ last' = [op |-> "constructor", apiKey |-> apiKey,
                          isEncrypted |-> isEncrypted, validateKey |-> validateKey,
                          threw |-> r.threw, logged |-> r.logged]
    /\ UNCHANGED <<rng, aead, encs, manager, storeVars, requests, tasks, batch>>

SetApiKeyCall ==
    /\ Idle
    /\ \E apiKey \in KeysOffered, isEncrypted \in BOOLEAN :
          LET r == SetApiKey(apiKey, isEncrypted)
          IN  /\ generator' = r.generator
              /\ keyLog' = [call |-> "setApiKey", key |-> apiKey]
              /\ last' = [op |-> "setApiKey", apiKey |-> apiKey,
                          before |-> generator.apiKey,
                          isEncrypted |-> isEncrypted, value |-> r.value,
                          threw |-> r.threw, logged |-> r.logged]
    /\ UNCHANGED <<rng, aead, encs, manager, storeVars, requests, tasks, batch>>

HasApiKeyCall ==
    /\ Idle
    /\ last' = [op |-> "hasApiKey", value |-> Bool(HasApiKey), threw |-> "",
                logged |-> <<>>]
    /\ UNCHANGED <<rng, aead, encs, manager, storeVars, generatorVars, tasks, batch>>

ClearApiKeyCall ==
    /\ Idle
    /\ generator' = ClearApiKey
    /\ keyLog' = [call |-> "clearApiKey", key |-> Null]
    /\ last' = [op |-> "clearApiKey", value |-> Undefined, threw |-> "",
                logged |-> <<>>]
    /\ UNCHANGED <<rng, aead, encs, manager, storeVars, requests, tasks, batch>>

-----------------------------------------------------------------------------
(* HuggingFaceMultiGenerator.generateWithModel(modelId, prompt, params).   *)

(* this.models: name and endpoint of each model (type and icon left out).  *)
Models ==
    [id \in {"stabilityai/stable-diffusion-2-1", "runwayml/stable-diffusion-v1-5",
             "CompVis/stable-diffusion-v1-4", "prompthero/openjourney",
             "hakurei/waifu-diffusion", "dallinmackay/Van-Gogh-diffusion"} |->
        [name |-> CASE id = "stabilityai/stable-diffusion-2-1" -> "Stable Diffusion 2.1"
                    [] id = "runwayml/stable-diffusion-v1-5" -> "Stable Diffusion 1.5"
                    [] id = "CompVis/stable-diffusion-v1-4" -> "Stable Diffusion 1.4"
                    [] id = "prompthero/openjourney" -> "OpenJourney"
                    [] id = "hakurei/waifu-diffusion" -> "Waifu Diffusion"
                    [] OTHER -> "Van Gogh Style",
         endpoint |-> "https://api-inference.huggingface.co/models/" \o id]]

(* Properties every object inherits from Object.prototype: this.models is  *)
(* an object literal, so this.models[modelId] finds them too.  Each is a   *)
(* function, with a name and no endpoint.                                  *)
InheritedKeys == {"toString", "constructor", "hasOwnProperty", "valueOf"}

InheritedName(key) == IF key = "constructor" THEN "Object" ELSE key

(* this.models[modelId]. *)
ModelLookup(modelId) ==
    IF modelId \in DOMAIN Models
    THEN [found |-> TRUE, name |-> Models[modelId].name,
          endpoint |-> Models[modelId].endpoint]
    ELSE IF modelId \in InheritedKeys
    THEN [found |-> TRUE, name |-> InheritedName(modelId), endpoint |-> "undefined"]
    ELSE [found |-> FALSE]

ErrNotConfigured == "API key not configured. Please set your HuggingFace API key first."
ErrModelNotFound(modelId) == "Model " \o modelId \o " not found"

(* enhancePromptForLogo(basePrompt). *)
EnhancePromptForLogo(basePrompt) ==
    basePrompt \o ", " \o "professional logo design, clean vector style, high quality, "
               \o "centered composition, white background, minimalist design"

DefaultParams ==
    [num_inference_steps |-> 50, guidance_scale |-> "7.5",
     negative_prompt |-> "blurry, bad quality, worst quality, low quality, low resolution",
     width |-> 512, height |-> 512]

(* String(v) in `Bearer ${this.apiKey}`. *)
StringOf(v) ==
    IF v = Null THEN <<110, 117, 108, 108>>
    ELSE IF v = Undefined THEN <<117, 110, 100, 101, 102, 105, 110, 101, 100>>
    ELSE v.chars

Bearer == <<66, 101, 97, 114, 101, 114, 32>>

(* The request fetch(model.endpoint, {...}) issues. *)
Request(model, prompt) ==
    [url |-> model.endpoint, method |-> "POST",
     authorization |-> Bearer \o StringOf(generator.apiKey),
     contentType |-> "application/json",
     inputs |-> EnhancePromptForLogo(prompt), parameters |-> DefaultParams,
     wait_for_model |-> TRUE]

(* What comes back: an image, an HTTP error status with a text, a network  *)
(* failure (fetch rejects), or a TypeError of fetch when the url cannot be *)
(* parsed (an url that is not absolute, where there is no base url).       *)
Responses(url) ==
    {[kind |-> "image", imageUrl |-> "blob:image"],
     [kind |-> "status", text |-> "Model is currently loading"],
     [kind |-> "failure", message |-> "Failed to fetch"]}
       \cup IF url = "undefined"
            THEN {[kind |-> "unparsed", message |-> "Failed to parse URL from undefined"]}
            ELSE {}

(* generateWithModel before its try block: the error it throws when the   *)
(* key or the model is missing, "" when it goes on.                        *)
Precondition(modelId) ==
    IF ~HasApiKey THEN ErrNotConfigured
    ELSE IF ~ModelLookup(modelId).found THEN ErrModelNotFound(modelId)
    ELSE ""

(* The try block from the response on and the catch block.  RespondThrowing *)
(* lets the error of a failed request out of generateWithModel.            *)
RespondThrowing(model, prompt, request, response) ==
    LET fetched == IF response.kind = "unparsed" THEN {} ELSE {request}
        failed(message) ==
            [threw |-> message, fetched |-> fetched, logged |-> <<>>,
             value |-> Undefined]
    IN  IF response.kind = "image"
        THEN [threw |-> "", fetched |-> fetched, logged |-> <<>>,
              value |-> [success |-> TRUE, imageUrl |-> response.imageUrl,
                         model |-> model.name,
                         prompt |-> EnhancePromptForLogo(prompt)]]
        ELSE IF response.kind = "status"
        THEN failed("API Error: " \o response.text)
        ELSE failed(response.message)

Respond(model, prompt, request, response) ==
    LET fetched == IF response.kind = "unparsed" THEN {} ELSE {request}
        failed(message) ==
            [threw |-> "", fetched |-> fetched,
             logged |-> <<"Error generating with " \o model.name \o ":">>,
             value |-> [success |-> FALSE, error |-> message, model |-> model.name]]
    IN  IF response.kind = "image"
        THEN [threw |-> "", fetched |-> fetched, logged |-> <<>>,
              value |-> [success |-> TRUE, imageUrl |-> response.imageUrl,
                         model |-> model.name,
                         prompt |-> EnhancePromptForLogo(prompt)]]
        ELSE IF response.kind = "status"
        THEN failed("API Error: " \o response.text)
        ELSE failed(response.message)

(* generateWithModel: threw is the error the returned promise rejects      *)
(* with, value what it fulfils with, fetched the requests issued.          *)
GenerateWithModel(modelId, prompt, response) ==
    LET model == ModelLookup(modelId)
    IN  IF Precondition(modelId) # ""
        THEN [threw |-> Precondition(modelId), fetched |-> {}, logged |-> <<>>,
              value |-> Undefined]
        ELSE Respond(model, prompt, Request(model, prompt), response)

(* The model ids and the prompt generateWithModel is called with. *)
ModelIds ==
    {"stabilityai/stable-diffusion-2-1", "prompthero/openjourney",
     "invalid-model", "toString", "constructor"}

Prompts == {"Test logo"}

GenerateWithModelCall ==
    /\ Idle
    /\ Cardinality(requests) < MaxRequests
    /\ \E modelId \in ModelIds, prompt \in Prompts :
          \E response \in Responses(IF ModelLookup(modelId).found
                                    THEN ModelLookup(modelId).endpoint
                                    ELSE "") :
              LET r == GenerateWithModel(modelId, prompt, response)
              IN  /\ requests' = requests \cup r.fetched
                  /\ last' = [op |-> "generateWithModel", modelId |-> modelId,
                              prompt |-> prompt, apiKey |-> generator.apiKey,
                              response |-> response,
                              value |-> r.value, threw |-> r.threw,
                              logged |-> r.logged, fetched |-> r.fetched]
    /\ UNCHANGED <<rng, aead, encs, manager, storeVars, generator, keyLog, tasks, batch>>

(* The generator's key is given, asked for, taken away, and used. *)
NextGenerator ==
    \/ ConstructorCall
    \/ SetApiKeyCall
    \/ HasApiKeyCall
    \/ ClearApiKeyCall
    \/ GenerateWithModelCall
    \/ Settle

SpecGenerator == Init /\ [][NextGenerator]_vars

-----------------------------------------------------------------------------
(* A SecureKeyManager that encrypts a key, keeps the blob in the store,    *)
(* reads it back and decrypts it.                                          *)

Tokens == {ConformingToken, Garbage}
TokenPasswords == {<<112>>, <<113>>}

(* The salts deriveKey is called with: those of the blobs, and sixteen     *)
(* zero bytes.                                                             *)
Salts == {DecryptSalt(Atob(b).bytes) : b \in Blobs} \cup {Repeat(0, SaltLength)}

(* The texts of the store handed to decryptKey. *)
StoredTexts ==
    IF localStorage.item.type = "string" THEN {localStorage.item.chars} ELSE {}

InitStore ==
    /\ InitManager
    /\ localStorage \in {EmptyStorage, TestStorage}
    /\ generator = NewGenerator

EncryptTokenCall ==
    /\ Idle
    /\ encs = <<>>
    /\ \E apiKey \in Tokens : EncryptKeyStep(apiKey, <<112>>)

DecryptTokenCall ==
    /\ Idle
    /\ \E encryptedKey \in Blobs \cup StoredTexts, password \in TokenPasswords :
          LET r == DecryptKey(encryptedKey, password)
          IN  last' = [op |-> "decryptKey", encryptedKey |-> encryptedKey,
                       password |-> password,
                       ok |-> r.ok, error |-> r.error, value |-> r.value]
    /\ UNCHANGED <<rng, aead, encs>>
    /\ UNCHANGED <<manager, storeVars, generatorVars, tasks, batch>>

(* deriveKey(password, salt), called on its own. *)
DeriveKeyCall ==
    /\ Idle
    /\ \E password \in TokenPasswords, salt \in Salts :
          last' = [op |-> "deriveKey", password |-> password, salt |-> salt,
                   ok |-> TRUE, error |-> "", value |-> DeriveKey(password, salt)]
    /\ UNCHANGED <<rng, aead, encs>>
    /\ UNCHANGED <<manager, storeVars, generatorVars, tasks, batch>>

NextManager ==
    \/ EncryptTokenCall
    \/ DecryptTokenCall
    \/ DeriveKeyCall
    \/ StoreEncryptedKeyCall
    \/ GetStoredEncryptedKeyCall
    \/ ClearStoredKeyCall
    \/ Settle

SpecManager == InitStore /\ [][NextManager]_vars

-----------------------------------------------------------------------------
(* An API key on its way through the application: given to the generator,  *)
(* encrypted, the blob stored and decrypted.                               *)
NextApp ==
    \/ ConstructorCall
    \/ SetApiKeyCall
    \/ EncryptTokenCall
    \/ StoreEncryptedKeyCall
    \/ DecryptTokenCall
    \/ Settle

SpecApp == Init /\ [][NextApp]_vars

(* The HTTP client with the key manager beside it: a key is encrypted, the *)
(* generator is given a key or the blob, and generates.                    *)
NextClient ==
    \/ EncryptTokenCall
    \/ ConstructorCall
    \/ SetApiKeyCall
    \/ ClearApiKeyCall
    \/ GenerateWithModelCall
    \/ Settle

SpecClient == Init /\ [][NextClient]_vars

-----------------------------------------------------------------------------
(* HuggingFaceMultiGenerator.getMaskedApiKey(). *)

MaskLongerThan == 10
MaskHead == 6
MaskTail == 4

(* 'Not configured', '[Encrypted]', '...' and '***'. *)
NotConfigured == <<78, 111, 116, 32, 99, 111, 110, 102, 105, 103, 117, 114, 101, 100>>
EncryptedMark == <<91, 69, 110, 99, 114, 121, 112, 116, 101, 100, 93>>
Ellipsis == <<46, 46, 46>>
Stars == <<42, 42, 42>>

(* GetMaskedApiKeyFlagFirst looks at the encrypted flag before it looks    *)
(* at the key.                                                             *)
GetMaskedApiKeyFlagFirst ==
    LET key == generator.apiKey
    IN  IF generator.isEncrypted THEN Str(EncryptedMark)
        ELSE IF Falsy(key) THEN Str(NotConfigured)
        ELSE IF Len(key.chars) > MaskLongerThan
        THEN Str(SubSeq(key.chars, 1, MaskHead) \o Ellipsis
                 \o SubSeq(key.chars, Len(key.chars) - MaskTail + 1, Len(key.chars)))
        ELSE Str(Stars)

GetMaskedApiKey ==
    LET key == generator.apiKey
    IN  IF Falsy(key) THEN Str(NotConfigured)
        ELSE IF generator.isEncrypted THEN Str(EncryptedMark)
        ELSE IF Len(key.chars) > MaskLongerThan
        THEN Str(SubSeq(key.chars, 1, MaskHead) \o Ellipsis
                 \o SubSeq(key.chars, Len(key.chars) - MaskTail + 1, Len(key.chars)))
        ELSE Str(Stars)

(* The keys shown: no key, short and long keys, keys of 10 and of 11       *)
(* characters, and keys that look like a mask.                             *)
DisplayKeys ==
    KeyValues \cup {Str(<<104, 102, 95, 97, 98, 99, 100, 101, 102, 103>>), Str(<<104, 102, 95, 97, 98, 99, 100, 101, 102, 103, 104>>), Str(Stars), Str(<<104, 102, 95, 97, 98, 99, 46, 46, 46, 100, 101, 102, 103>>),
                    Str(EncryptedMark), Str(NotConfigured)}

SetDisplayKeyCall ==
    /\ Idle
    /\ \E apiKey \in DisplayKeys, isEncrypted \in BOOLEAN :
          LET r == SetApiKey(apiKey, isEncrypted)
          IN  /\ generator' = r.generator
              /\ keyLog' = [call |-> "setApiKey", key |-> apiKey]
              /\ last' = [op |-> "setApiKey", apiKey |-> apiKey,
                          before |-> generator.apiKey,
                          isEncrypted |-> isEncrypted, value |-> r.value,
                          threw |-> r.threw, logged |-> r.logged]
    /\ UNCHANGED <<rng, aead, encs, manager, storeVars, requests, tasks, batch>>

GetMaskedApiKeyCall ==
    /\ Idle
    /\ last' = [op |-> "getMaskedApiKey", apiKey |-> generator.apiKey,
                isEncrypted |-> generator.isEncrypted,
                value |-> GetMaskedApiKey, threw |-> "", logged |-> <<>>]
    /\ UNCHANGED <<rng, aead, encs, manager, storeVars, generatorVars, tasks, batch>>

(* The key is set, shown masked, taken away. *)
NextMask ==
    \/ SetDisplayKeyCall
    \/ ConstructorCall
    \/ ClearApiKeyCall
    \/ HasApiKeyCall
    \/ GetMaskedApiKeyCall
    \/ Settle

SpecMask == Init /\ [][NextMask]_vars

-----------------------------------------------------------------------------
(* The options of the constructor and the second argument of setApiKey,    *)
(* given or left out.                                                      *)
OptionValues == {Undefined, Bool(TRUE), Bool(FALSE)}

(* options.isEncrypted || false. *)
OptionIsEncrypted(v) == ~Falsy(v)

(* options.validateKey !== false; OptionValidateKeyTruthy is               *)
(* !!options.validateKey.                                                  *)
OptionValidateKeyTruthy(v) == ~Falsy(v)

OptionValidateKey(v) == v # Bool(FALSE)

(* isEncrypted = false in the parameter list of setApiKey. *)
ParamIsEncrypted(v) == IF v = Undefined THEN FALSE ELSE v.value

ConstructorOptionsCall ==
    /\ Idle
    /\ \E apiKey \in KeyValues, isEncrypted \in OptionValues, validateKey \in OptionValues :
          LET r == Constructor(apiKey, OptionIsEncrypted(isEncrypted),
                               OptionValidateKey(validateKey))
          IN  /\ generator' = r.generator
              /\ keyLog' = [call |-> "constructor", key |-> apiKey]
              /\ last' = [op |-> "constructor", apiKey |-> apiKey,
                          options |-> [isEncrypted |-> isEncrypted,
                                       validateKey |-> validateKey],
                          validated |-> r.validated,
                          threw |-> r.threw, logged |-> r.logged]
    /\ UNCHANGED <<rng, aead, encs, manager, storeVars, requests, tasks, batch>>

SetApiKeyArgsCall ==
    /\ Idle
    /\ \E apiKey \in KeyValues, isEncrypted \in OptionValues :
          LET r == SetApiKey(apiKey, ParamIsEncrypted(isEncrypted))
          IN  /\ generator' = r.generator
              /\ keyLog' = [call |-> "setApiKey", key |-> apiKey]
              /\ last' = [op |-> "setApiKey", apiKey |-> apiKey,
                          before |-> generator.apiKey,
                          isEncrypted |-> isEncrypted,
                          keyValidator |-> generator.keyValidator,
                          validated |-> r.validated, value |-> r.value,
                          threw |-> r.threw, logged |-> r.logged]
    /\ UNCHANGED <<rng, aead, encs, manager, storeVars, requests, tasks, batch>>

NextGating ==
    \/ ConstructorOptionsCall
    \/ SetApiKeyArgsCall
    \/ HasApiKeyCall
    \/ Settle

SpecGating == Init /\ [][NextGating]_vars

-----------------------------------------------------------------------------
(* HuggingFaceMultiGenerator.generateWithAllModels(prompt, selectedModels, *)
(* onProgress).  The callback of modelsToUse.map runs for every model up   *)
(* to its await before the first response is looked at; from there on the  *)
(* callbacks go on one by one as their requests come back.                 *)

MaxSelected == 2

(* An array of model ids. *)
Arr(items) == [type |-> "array", items |-> items]

(* Object.keys(this.models): the ids in the order of the table. *)
ModelKeys ==
    <<"stabilityai/stable-diffusion-2-1", "runwayml/stable-diffusion-v1-5",
      "CompVis/stable-diffusion-v1-4", "prompthero/openjourney",
      "hakurei/waifu-diffusion", "dallinmackay/Van-Gogh-diffusion">>

(* selectedModels || Object.keys(this.models): an array, empty or not, is  *)
(* kept.                                                                   *)
ModelsToUse(selectedModels) ==
    IF selectedModels.type = "array" THEN selectedModels.items ELSE ModelKeys

(* onProgress(modelId, status, result), as the callback sees it. *)
Progress(status, result) == [status |-> status, result |-> result]

(* The mark left in a model's trace where fetch is called for it. *)
RequestMade == [status |-> "request", result |-> Undefined]

(* One callback of the map up to its await: 'loading' is reported, then    *)
(* generateWithModel runs up to fetch.  unparsed tells that fetch will      *)
(* not take the url.                                                       *)
StartModel(modelId, prompt, onProgress, unparsed) ==
    LET loading == IF onProgress THEN <<Progress("loading", Undefined)>> ELSE <<>>
        model == ModelLookup(modelId)
    IN  IF Precondition(modelId) # ""
        THEN [modelId |-> modelId, state |-> "rejected",
              reason |-> Precondition(modelId), value |-> Undefined,
              request |-> Undefined, unparsed |-> FALSE, trace |-> loading]
        ELSE [modelId |-> modelId, state |-> "pending", reason |-> "",
              value |-> Undefined, request |-> Request(model, prompt),
              unparsed |-> unparsed,
              trace |-> IF unparsed THEN loading ELSE Append(loading, RequestMade)]

(* The rest of the callback, once generateWithModel has a result: the      *)
(* terminal status is reported and the result returned.                    *)
FinishModel(slot, result, onProgress) ==
    [slot EXCEPT !.state = "fulfilled",
                 !.value = result,
                 !.trace = IF onProgress
                           THEN Append(@, Progress(IF result.success THEN "complete"
                                                   ELSE "error", result))
                           ELSE @]

(* allResults.map(...) over the outcome of Promise.allSettled.             *)
(* SettledResultsFailingTogether gives up every result when one callback   *)
(* was rejected, as Promise.all would.                                     *)
SettledResultsFailingTogether(slots) ==
    [i \in 1..Len(slots) |->
        IF \A j \in 1..Len(slots) : slots[j].state = "fulfilled"
        THEN slots[i].value
        ELSE [success |-> FALSE,
              error |-> slots[CHOOSE j \in 1..Len(slots) :
                                  slots[j].state = "rejected"].reason]]

SettledResults(slots) ==
    [i \in 1..Len(slots) |->
        IF slots[i].state = "fulfilled"
        THEN slots[i].value
        ELSE [success |-> FALSE, error |-> slots[i].reason]]

(* The selections: none, an empty one, and up to MaxSelected ids, known,   *)
(* unknown or inherited.                                                   *)
SelectableIds == {"stabilityai/stable-diffusion-2-1", "invalid-model", "toString"}

RECURSIVE IdLists(_)
IdLists(n) ==
    IF n = 0 THEN {<<>>}
    ELSE IdLists(n - 1) \cup {Append(l, id) : l \in IdLists(n - 1), id \in SelectableIds}

Selections == {Null} \cup {Arr(l) : l \in IdLists(MaxSelected)}

(* The positions of a selection whose url fetch may refuse. *)
Unparseable(ids) ==
    {i \in 1..Len(ids) : ModelLookup(ids[i]).found /\ ModelLookup(ids[i]).endpoint = "undefined"}

GenerateWithAllModelsCall ==
    /\ Idle
    /\ batch = NoBatch
    /\ Cardinality(requests) < MaxRequests
    /\ \E prompt \in Prompts, selectedModels \in Selections, onProgress \in BOOLEAN :
          LET ids == ModelsToUse(selectedModels)
          IN  \E refused \in SUBSET Unparseable(ids) :
                 LET slots == [i \in 1..Len(ids) |->
                                  StartModel(ids[i], prompt, onProgress, i \in refused)]
                 IN  /\ batch' = [op |-> "generateWithAllModels", pc |-> "allSettled",
                                  prompt |-> prompt, selectedModels |-> selectedModels,
                                  onProgress |-> onProgress, apiKey |-> generator.apiKey,
                                  slots |-> slots, value |-> <<>>]
                     /\ requests' = requests \cup
                            {slots[i].request :
                                i \in {j \in 1..Len(ids) : /\ slots[j].state = "pending"
                                                           /\ ~slots[j].unparsed}}
    /\ UNCHANGED <<rng, aead, encs, last, manager, storeVars, generator, keyLog, tasks>>

(* The request of one model comes back, or fetch refuses its url:          *)
(* generateWithModel returns and the callback goes on.                     *)
ModelResponds ==
    /\ batch.op = "generateWithAllModels"
    /\ batch.pc = "allSettled"
    /\ \E i \in 1..Len(batch.slots) :
          /\ batch.slots[i].state = "pending"
          /\ LET slot == batch.slots[i]
                 model == ModelLookup(slot.modelId)
             IN  \E response \in {r \in Responses(model.endpoint) :
                                     (r.kind = "unparsed") <=> slot.unparsed} :
                    batch' = [batch EXCEPT !.slots[i] =
                                 FinishModel(slot,
                                             Respond(model, batch.prompt, slot.request,
                                                     response).value,
                                             batch.onProgress)]
    /\ UNCHANGED <<rng, aead, encs, last, manager, storeVars, generatorVars, tasks>>

(* Every callback has settled: the promise of generateWithAllModels is     *)
(* fulfilled.                                                              *)
AllSettled ==
    /\ batch.op = "generateWithAllModels"
    /\ batch.pc = "allSettled"
    /\ \A i \in 1..Len(batch.slots) : batch.slots[i].state # "pending"
    /\ batch' = [batch EXCEPT !.pc = "fulfilled", !.value = SettledResults(batch.slots)]
    /\ UNCHANGED <<rng, aead, encs, last, manager, storeVars, generatorVars, tasks>>

(* The caller takes the results. *)
BatchTaken ==
    /\ batch.op # "none"
    /\ batch.pc \in {"fulfilled", "rejected"}
    /\ batch' = NoBatch
    /\ UNCHANGED <<rng, aead, encs, last, manager, storeVars, generatorVars, tasks>>

(* The key is given while no generation is in flight. *)
ConfigureCall == batch = NoBatch /\ SetApiKeyCall

NextAll ==
    \/ ConfigureCall
    \/ ClearApiKeyCall
    \/ GenerateWithAllModelsCall
    \/ ModelResponds
    \/ AllSettled
    \/ BatchTaken
    \/ Settle

SpecAll == Init /\ [][NextAll]_vars

(* Every request comes back or fails, and a promise whose callbacks have   *)
(* all settled is settled.                                                 *)
SpecAllFair == SpecAll /\ WF_vars(ModelResponds) /\ WF_vars(AllSettled)

-----------------------------------------------------------------------------
(* HuggingFaceMultiGenerator.saveToDevice and saveAllImages(images). *)

MaxImages == 3
SaveDelay == 500

(* Date.now() when saveAllImages is called; the clock then moves with the  *)
(* delays.                                                                 *)
StartTime == 1000

(* \s of a regular expression. *)
IsSpace(c) ==
    c \in {9, 10, 11, 12, 13, 32, 160, 5760, 8232, 8233, 8239, 8287, 12288, 65279}
             \cup 8192..8202

(* text.replace(/\s+/g, '-') from position i on: every run of white space  *)
(* becomes one '-'.                                                        *)
RECURSIVE ReplaceSpaceRuns(_, _)
ReplaceSpaceRuns(text, i) ==
    IF i > Len(text) THEN <<>>
    ELSE IF ~IsSpace(text[i]) THEN <<text[i]>> \o ReplaceSpaceRuns(text, i + 1)
    ELSE IF i > 1 /\ IsSpace(text[i - 1]) THEN ReplaceSpaceRuns(text, i + 1)
    ELSE <<45>> \o ReplaceSpaceRuns(text, i + 1)

(* String(n) for a number n >= 0. *)
RECURSIVE Digits(_)
Digits(n) == IF n < 10 THEN <<48 + n>> ELSE Digits(n \div 10) \o <<48 + (n % 10)>>

(* `logo-${image.model.replace(/\s+/g, '-')}-${Date.now()}.png` *)
Filename(model, now) ==
    <<108, 111, 103, 111, 45>> \o ReplaceSpaceRuns(model.chars, 1) \o <<45>> \o Digits(now) \o <<46, 112, 110, 103>>

ErrNoReplace == "Cannot read properties of undefined (reading 'replace')"

(* What saveToDevice fulfils with: the file was shared, the file was       *)
(* downloaded, or something threw (the image could not be fetched, the     *)
(* share was dismissed) and the catch block answered.                      *)
SaveOutcomes ==
    {[success |-> TRUE, method |-> "share", error |-> ""],
     [success |-> TRUE, method |-> "download", error |-> ""],
     [success |-> FALSE, method |-> "", error |-> "Failed to fetch"],
     [success |-> FALSE, method |-> "", error |-> "Share canceled"]}

(* The results handed to saveAllImages: an image that was generated, the   *)
(* result of a failed request (no imageUrl), and the result                *)
(* generateWithAllModels makes of a rejected call (no imageUrl, no model). *)
ImageGenerated ==
    [success |-> TRUE, imageUrl |-> Str(<<98, 108, 111, 98, 58, 105, 109, 97, 103, 101>>), model |-> Str(<<83, 116, 97, 98, 108, 101, 32, 68, 105, 102, 102, 117, 115, 105, 111, 110, 32, 50, 46, 49>>)]

ImageFailed ==
    [success |-> FALSE, imageUrl |-> Undefined, model |-> Str(<<79, 112, 101, 110, 74, 111, 117, 114, 110, 101, 121>>)]

ImageRejected == [success |-> FALSE, imageUrl |-> Undefined, model |-> Undefined]

RECURSIVE ImageLists(_)
ImageLists(n) ==
    IF n = 0 THEN {<<>>}
    ELSE ImageLists(n - 1)
            \cup {Append(l, image) : l \in ImageLists(n - 1),
                                     image \in {ImageGenerated, ImageFailed, ImageRejected}}

(* The loop of saveAllImages at image i, up to await this.saveToDevice:    *)
(* the loop ends, or the file name cannot be built, or the save starts.    *)
SaveNext(call, i) ==
    IF i > Len(call.images)
    THEN [call EXCEPT !.pc = "fulfilled", !.value = call.results]
    ELSE IF call.images[i].model = Undefined
    THEN [call EXCEPT !.pc = "rejected", !.i = i, !.threw = ErrNoReplace]
    ELSE [call EXCEPT !.pc = "saveToDevice", !.i = i,
                      !.trace = Append(@, [event |-> "save", i |-> i,
                                           imageUrl |-> call.images[i].imageUrl,
                                           filename |-> Filename(call.images[i].model,
                                                                 call.now)])]

SaveAllImagesCall ==
    /\ Idle
    /\ batch = NoBatch
    /\ \E images \in ImageLists(MaxImages) :
          batch' = SaveNext([op |-> "saveAllImages", pc |-> "start", images |-> images,
                             i |-> 0, results |-> <<>>, now |-> StartTime,
                             trace |-> <<>>, threw |-> "", value |-> <<>>], 1)
    /\ UNCHANGED <<rng, aead, encs, last, manager, storeVars, generatorVars, tasks>>

(* saveToDevice settles: results.push(result), then the delay is awaited.  *)
SaveSettles ==
    /\ batch.op = "saveAllImages"
    /\ batch.pc = "saveToDevice"
    /\ \E outcome \in SaveOutcomes :
          batch' = [batch EXCEPT !.pc = "setTimeout",
                                 !.results = Append(@, outcome),
                                 !.trace = Append(@, [event |-> "saved", i |-> batch.i,
                                                      imageUrl |-> Undefined,
                                                      filename |-> <<>>])]
    /\ UNCHANGED <<rng, aead, encs, last, manager, storeVars, generatorVars, tasks>>

(* The timer fires: i++ and the loop goes on. *)
DelayElapses ==
    /\ batch.op = "saveAllImages"
    /\ batch.pc = "setTimeout"
    /\ batch' = SaveNext([batch EXCEPT !.now = @ + SaveDelay,
                                       !.trace = Append(@, [event |-> "delay", i |-> batch.i,
                                                            imageUrl |-> Undefined,
                                                            filename |-> <<>>])],
                         batch.i + 1)
    /\ UNCHANGED <<rng, aead, encs, last, manager, storeVars, generatorVars, tasks>>

NextSave ==
    \/ SaveAllImagesCall
    \/ SaveSettles
    \/ DelayElapses
    \/ BatchTaken

SpecSave == Init /\ [][NextSave]_vars

-----------------------------------------------------------------------------
(* Concurrent encryptKey / decryptKey calls on one SecureKeyManager.  An   *)
(* async call runs to its next await in one step; between the awaits the   *)
(* steps of the calls in flight interleave.  A task holds the arguments    *)
(* and the local constants of one call: pc is the await it stands at       *)
(* ("deriveKey": await this.deriveKey(password, salt); "cipher": await     *)
(* crypto.subtle.encrypt / decrypt; "done": the promise is settled).       *)

MaxTasks == 3

NoBytes == <<>>
NoKey == [algorithm |-> "none"]

Task(op, arg, password) ==
    [op |-> op, arg |-> arg, password |-> password, pc |-> "done",
     salt |-> NoBytes, iv |-> NoBytes, data |-> NoBytes, key |-> NoKey,
     rngBefore |-> rng, ok |-> FALSE, error |-> "", value |-> NoBytes]

TaskIds == 1..Len(tasks)
Done(i) == tasks[i].pc = "done"

(* The blobs that concurrent encryptKey calls have returned so far. *)
ReturnedBlobs ==
    {tasks[i].value : i \in {j \in TaskIds : /\ tasks[j].op = "encryptKey"
                                              /\ Done(j) /\ tasks[j].ok}}

ConcurrentSecrets == {<<>>, <<104>>, <<65279>>}
ConcurrentPasswords == {<<112>>, <<113>>}

(* encryptKey up to await this.deriveKey: the guard, the two draws. *)
EncryptKeyBegin(apiKey, password) ==
    IF EncryptGuard(apiKey, password)
    THEN [Task("encryptKey", apiKey, password) EXCEPT !.error = ErrEncryptRequired]
    ELSE [Task("encryptKey", apiKey, password) EXCEPT
              !.pc = "deriveKey",
              !.salt = EncryptNonces(rng).salt,
              !.iv = EncryptNonces(rng).iv]

EncryptKeyStart ==
    /\ Len(tasks) < MaxTasks
    /\ \E apiKey \in ConcurrentSecrets, password \in ConcurrentPasswords :
          LET t == EncryptKeyBegin(apiKey, password)
          IN  /\ tasks' = Append(tasks, t)
              /\ rng' = IF t.pc = "done" THEN rng ELSE rng + 2
    /\ UNCHANGED <<aead, encs, last, manager, storeVars, generatorVars, batch>>

(* decryptKey up to await this.deriveKey: the guard, the decoding, the     *)
(* three slices; what base64ToArrayBuffer throws is caught.                *)
DecryptKeyBegin(encryptedKey, password) ==
    IF DecryptGuard(encryptedKey, password)
    THEN [Task("decryptKey", encryptedKey, password) EXCEPT !.error = ErrDecryptRequired]
    ELSE LET decoded == Base64ToArrayBuffer(encryptedKey)
             combined == decoded.bytes
         IN  IF ~decoded.ok
             THEN [Task("decryptKey", encryptedKey, password) EXCEPT
                       !.error = DecryptCaught.error]
             ELSE [Task("decryptKey", encryptedKey, password) EXCEPT
                       !.pc = "deriveKey",
                       !.salt = DecryptSalt(combined),
                       !.iv = DecryptIv(combined),
                       !.data = DecryptData(combined)]

DecryptKeyStart ==
    /\ Len(tasks) < MaxTasks
    /\ \E encryptedKey \in ReturnedBlobs \cup {<<33, 33, 33, 33>>},
          password \in ConcurrentPasswords \cup {<<>>} :
          tasks' = Append(tasks, DecryptKeyBegin(encryptedKey, password))
    /\ UNCHANGED <<rng, aead, encs, last, manager, storeVars, generatorVars, batch>>

(* await this.deriveKey(password, salt) resumes call i with its key. *)
DeriveKeyResume ==
    \E i \in TaskIds :
        /\ tasks[i].pc = "deriveKey"
        /\ tasks' = [tasks EXCEPT ![i].pc = "cipher",
                                  ![i].key = DeriveKey(tasks[i].password, tasks[i].salt)]
        /\ UNCHANGED <<rng, aead, encs, last, manager, storeVars, generatorVars, batch>>

(* await crypto.subtle.encrypt resumes call i: combine, encode, return. *)
EncryptResume ==
    \E i \in TaskIds :
        /\ tasks[i].op = "encryptKey"
        /\ tasks[i].pc = "cipher"
        /\ LET t == tasks[i]
               pt == TextEncode(t.arg)
               encryptedData == AesGcmEncrypt(t.key, t.iv, pt)
               combined == EncryptCombined(t.salt, t.iv, encryptedData)
               blob == ArrayBufferToBase64(combined)
           IN  /\ aead' = aead \cup {[key |-> t.key, iv |-> t.iv, pt |-> pt,
                                       ct |-> encryptedData]}
               /\ tasks' = [tasks EXCEPT ![i].pc = "done", ![i].ok = TRUE,
                                         ![i].data = encryptedData, ![i].value = blob]
               /\ encs' = Append(encs, [apiKey |-> t.arg, password |-> t.password,
                                         blob |-> blob])
        /\ UNCHANGED <<rng, last, manager, storeVars, generatorVars, batch>>

(* await crypto.subtle.decrypt resumes call i: decode the text and return, *)
(* or catch the OperationError.                                            *)
DecryptResume ==
    \E i \in TaskIds :
        /\ tasks[i].op = "decryptKey"
        /\ tasks[i].pc = "cipher"
        /\ LET t == tasks[i]
               decryptedData == AesGcmDecrypt(t.key, t.iv, t.data)
           IN  tasks' = IF decryptedData.ok
                        THEN [tasks EXCEPT ![i].pc = "done", ![i].ok = TRUE,
                                           ![i].value = TextDecode(decryptedData.pt)]
                        ELSE [tasks EXCEPT ![i].pc = "done",
                                           ![i].error = DecryptCaught.error]
        /\ UNCHANGED <<rng, aead, encs, last, manager, storeVars, generatorVars, batch>>

NextConcurrent ==
    \/ EncryptKeyStart
    \/ DecryptKeyStart
    \/ DeriveKeyResume
    \/ EncryptResume
    \/ DecryptResume

SpecConcurrent == Init /\ [][NextConcurrent]_vars

-----------------------------------------------------------------------------
(* What the properties below speak of. *)

Decrypted == last.op = "decryptKey"
Encrypted == last.op = "encryptKey"
BytesOf(text) == Atob(text).bytes
MinBlobLength == SaltLength + IvLength

(* b is a with exactly one byte changed. *)
OneByteChanged(a, b) ==
    /\ Len(a) = Len(b)
    /\ Cardinality({i \in 1..Len(a) : a[i] # b[i]}) = 1

(* The last call decrypted, under password, the blob of call k with one    *)
(* byte of its decoded form changed.                                       *)
DecryptedTampered(k) ==
    /\ Decrypted
    /\ Atob(last.encryptedKey).ok
    /\ OneByteChanged(BytesOf(encs[k].blob), BytesOf(last.encryptedKey))

(* C1: decryptKey(encryptKey(S, P), P) returns exactly S, for every        *)
(* non-empty S and P and every salt and nonce.                             *)
C1_RoundTrip ==
    \A k \in Calls :
        (Decrypted /\ last.encryptedKey = encs[k].blob /\ last.password = encs[k].password)
            => (last.ok /\ last.value = encs[k].apiKey)

(* C2: decryptKey(encryptKey(S, P1), P2) with P2 # P1 fails with the       *)
(* decryption-failed error and returns no value.                           *)
C2_WrongPassword ==
    \A k \in Calls :
        (Decrypted /\ last.encryptedKey = encs[k].blob /\ last.password # encs[k].password)
            => (~last.ok /\ last.error = ErrDecryptFailed)

(* C3: a blob with any single byte of its decoded form changed (salt, iv   *)
(* or ciphertext and tag) fails to decrypt under the password it was made  *)
(* with, with the decryption-failed error; no plaintext is returned.       *)
C3_TamperDetected ==
    \A k \in Calls :
        (DecryptedTampered(k) /\ last.password = encs[k].password)
            => (~last.ok /\ last.error = ErrDecryptFailed /\ last.value = <<>>)

C3_Witness ==
    \E k \in Calls :
        /\ DecryptedTampered(k)
        /\ last.password = encs[k].password
        /\ BytesOf(last.encryptedKey)[Len(BytesOf(last.encryptedKey))]
               # BytesOf(encs[k].blob)[Len(BytesOf(encs[k].blob))]
        /\ ~last.ok

(* C4: decryptKey fails or returns the very secret that was given to the   *)
(* encryptKey call that produced the blob; never a different or truncated  *)
(* one.                                                                    *)
C4_NoPartialSuccess ==
    (Decrypted /\ last.ok)
        => \E k \in Calls : /\ BytesOf(encs[k].blob) = BytesOf(last.encryptedKey)
                            /\ last.value = encs[k].apiKey

(* C5: two encryptKey calls with the same secret and the same password     *)
(* return different blobs.                                                 *)
C5_BlobsDiffer ==
    \A j, k \in Calls :
        (j # k /\ encs[j].apiKey = encs[k].apiKey /\ encs[j].password = encs[k].password)
            => encs[j].blob # encs[k].blob

C5_Witness ==
    \E j, k \in Calls :
        /\ j # k
        /\ encs[j].apiKey = encs[k].apiKey
        /\ encs[j].password = encs[k].password
        /\ encs[j].blob # encs[k].blob

(* C6: every encryptKey call that returns a blob has drawn a 16-byte salt  *)
(* and a 12-byte nonce of its own from the random source (two draws), and  *)
(* neither the salt nor the nonce of one call is that of another call.     *)
C6_FreshNonces ==
    /\ \A k \in Calls :
          /\ Len(DecryptSalt(BytesOf(encs[k].blob))) = SaltLength
          /\ Len(DecryptIv(BytesOf(encs[k].blob))) = IvLength
    /\ \A j, k \in Calls :
          j # k => /\ DecryptSalt(BytesOf(encs[j].blob)) # DecryptSalt(BytesOf(encs[k].blob))
                   /\ DecryptIv(BytesOf(encs[j].blob)) # DecryptIv(BytesOf(encs[k].blob))
    /\ (Encrypted /\ last.ok) => rng = last.rngBefore + 2
    /\ rng = 2 * Len(encs)

C6_Witness ==
    /\ Len(encs) = 2
    /\ encs[1].password # encs[2].password
    /\ DecryptIv(BytesOf(encs[1].blob)) # DecryptIv(BytesOf(encs[2].blob))

(* C7: encryptKey with an empty secret or an empty password fails with     *)
(* the input-required error, returns no blob, and draws nothing from the   *)
(* random source.                                                          *)
C7_InvalidInput ==
    [][(last'.op = "encryptKey" /\ (last'.apiKey = <<>> \/ last'.password = <<>>))
           => /\ ~last'.ok
              /\ last'.error = ErrEncryptRequired
              /\ last'.value = <<>>
              /\ UNCHANGED <<rng, aead, encs>>]_vars

C7_Witness ==
    /\ Encrypted
    /\ last.apiKey # <<>>
    /\ last.password = <<>>
    /\ ~last.ok
    /\ rng = 0

(* C8, as claimed: an input whose decoded length is under 28 bytes fails   *)
(* with an error of a kind other than decryption-failed.                   *)
C8_MalformedKind ==
    (Decrypted /\ Atob(last.encryptedKey).ok
               /\ Len(BytesOf(last.encryptedKey)) < MinBlobLength)
        => (~last.ok /\ last.error # ErrDecryptFailed)

(* C8, amended: an input whose decoded length is under 28 bytes fails,     *)
(* with the input-required error when the text or the password is empty    *)
(* and with the decryption-failed error otherwise; a decryption succeeds   *)
(* only on a decoded blob of at least 28 bytes.                            *)
C8_ShortBlobFails ==
    /\ (Decrypted /\ Atob(last.encryptedKey).ok
                  /\ Len(BytesOf(last.encryptedKey)) < MinBlobLength)
           => /\ ~last.ok
              /\ last.error = IF last.encryptedKey = <<>> \/ last.password = <<>>
                              THEN ErrDecryptRequired
                              ELSE ErrDecryptFailed
    /\ (Decrypted /\ last.ok) => Len(BytesOf(last.encryptedKey)) >= MinBlobLength

C8_Witness ==
    /\ Decrypted
    /\ \E k \in Calls : /\ last.password = encs[k].password
                        /\ BytesOf(last.encryptedKey)
                               = SubSeq(BytesOf(encs[k].blob), 1, MinBlobLength - 1)
    /\ ~last.ok
    /\ last.error = ErrDecryptFailed

(* C9, as claimed: a text that is not valid base64 fails with an error of  *)
(* a kind other than decryption-failed.                                    *)
C9_DecodeKind ==
    (Decrypted /\ ~Atob(last.encryptedKey).ok)
        => (~last.ok /\ last.error # ErrDecryptFailed)

(* C9, amended: a text that is not valid base64 (one atob rejects) fails,  *)
(* with the same decryption-failed error as a failed tag check, or with    *)
(* the input-required error when the password is empty.                    *)
C9_InvalidBase64Fails ==
    (Decrypted /\ ~Atob(last.encryptedKey).ok)
        => /\ ~last.ok
           /\ last.error = IF last.password = <<>>
                           THEN ErrDecryptRequired
                           ELSE ErrDecryptFailed

C9_Witness ==
    /\ Decrypted
    /\ \E k \in Calls : /\ last.encryptedKey = encs[k].blob \o <<65>>
                        /\ last.password = encs[k].password
    /\ ~Atob(last.encryptedKey).ok
    /\ ~last.ok
    /\ last.error = ErrDecryptFailed

(* The outcomes decryptKey gives for the blob of call k with one byte      *)
(* changed, under the password of call k.                                  *)
TamperOutcomes(k) ==
    {DecryptKey(t, encs[k].password) : t \in TamperedOf(encs[k].blob)}

(* C10, as claimed: the failure reported for a wrong password on a blob    *)
(* is the failure reported for the right password on that blob tampered.   *)
C10_Indistinguishable ==
    \A k \in Calls :
        (Decrypted /\ last.encryptedKey = encs[k].blob
                   /\ last.password # encs[k].password /\ ~last.ok)
            => \A o \in TamperOutcomes(k) : ~o.ok /\ o.error = last.error

(* C10, amended: the failure reported for a non-empty wrong password on a  *)
(* blob is the failure reported for the right password on that blob        *)
(* tampered; an empty password is refused with the input-required error.   *)
C10_IndistinguishableNonEmpty ==
    \A k \in Calls :
        (Decrypted /\ last.encryptedKey = encs[k].blob
                   /\ last.password # encs[k].password /\ ~last.ok)
            => IF last.password = <<>>
               THEN last.error = ErrDecryptRequired
               ELSE \A o \in TamperOutcomes(k) : ~o.ok /\ o.error = last.error

C10_Witness ==
    \E k \in Calls :
        /\ Decrypted
        /\ last.encryptedKey = encs[k].blob
        /\ last.password # encs[k].password
        /\ last.password # <<>>
        /\ ~last.ok
        /\ last.error = ErrDecryptFailed


(* C11: the value encryptKey returns is the base64 text of the salt (bytes *)
(* 0..15), the nonce (bytes 16..27) and the ciphertext with its tag, so    *)
(* its decoded length is 16 + 12 + ciphertext_len; decryptKey splits the   *)
(* decoded bytes at the same offsets; the returned text is never the       *)
(* plaintext secret.                                                       *)
C11_BlobLayout ==
    /\ (Encrypted /\ last.ok)
          => LET bytes == BytesOf(last.value)
                 salt == GetRandomValues(16, last.rngBefore)
                 iv == GetRandomValues(12, last.rngBefore + 1)
             IN  /\ Atob(last.value).ok
                 /\ last.value = Btoa(bytes)
                 /\ SubSeq(bytes, 1, 16) = salt
                 /\ SubSeq(bytes, 17, 28) = iv
                 /\ \E e \in aead :
                       /\ e.key = DeriveKey(last.password, salt)
                       /\ e.iv = iv
                       /\ e.pt = TextEncode(last.apiKey)
                       /\ e.ct = SubSeq(bytes, 29, Len(bytes))
                       /\ Len(e.ct) = Len(e.pt) + TagLength
                       /\ Len(bytes) = 16 + 12 + Len(e.ct)
                       /\ DecryptData(bytes) = e.ct
                 /\ DecryptSalt(bytes) = salt
                 /\ DecryptIv(bytes) = iv
                 /\ last.value # last.apiKey
    /\ (Decrypted /\ last.ok)
          => LET bytes == BytesOf(last.encryptedKey)
             IN  \E e \in aead :
                    /\ e.key.salt = SubSeq(bytes, 1, 16)
                    /\ e.iv = SubSeq(bytes, 17, 28)
                    /\ e.ct = SubSeq(bytes, 29, Len(bytes))
                    /\ last.value = TextDecode(e.pt)

C11_Witness ==
    /\ Decrypted
    /\ last.ok
    /\ \E k \in Calls : /\ last.encryptedKey = encs[k].blob
                        /\ encs[k].apiKey = <<65279>>
    /\ Len(BytesOf(last.encryptedKey)) = 16 + 12 + 3 + TagLength


(* The shape of a token as the format is described: "hf_" followed by 30   *)
(* or more characters of [A-Za-z0-9] and nothing else.                     *)
TokenShape(chars) ==
    /\ Len(chars) >= 3 + 30
    /\ SubSeq(chars, 1, 3) = <<104, 102, 95>>
    /\ \A i \in 4..Len(chars) : IsAlnum(chars[i])

Validated == last.op \in {"validateApiKey", "generator.validateApiKey"}

(* A validator call leaves every field, the store and the random source    *)
(* as they were.                                                           *)
ValidateChangesNothing ==
    (Idle /\ last'.op \in {"validateApiKey", "generator.validateApiKey"})
        => UNCHANGED <<rng, aead, encs, manager, storeVars, generatorVars, tasks, batch>>

(* C14, as claimed: the format validator of SecureKeyManager and that of   *)
(* HuggingFaceMultiGenerator return true exactly for strings of the token  *)
(* shape, false for the others, and have no side effect.                   *)
C14_PureCheck ==
    /\ [](Validated => /\ last.threw = ""
                       /\ last.logged = <<>>
                       /\ last.apiKey.type = "string"
                             => last.value = Bool(TokenShape(last.apiKey.chars)))
    /\ [][ValidateChangesNothing]_vars

(* C14, amended: SecureKeyManager.validateApiKey returns true exactly for  *)
(* strings of the token shape and false for the others, silently;          *)
(* HuggingFaceMultiGenerator.validateApiKey throws 'API key is required'   *)
(* for an empty or missing key and returns true for every other key,       *)
(* writing a warning to the console exactly when the key is not of the     *)
(* token shape; neither changes any state.                                 *)
C14_Validators ==
    /\ [](last.op = "validateApiKey"
             => /\ last.threw = ""
                /\ last.logged = <<>>
                /\ last.value = Bool(TokenShape(last.apiKey.chars)))
    /\ [](last.op = "generator.validateApiKey"
             => IF last.apiKey \in {Null, Undefined, Str(<<>>)}
                THEN last.threw = ErrKeyRequired
                ELSE /\ last.threw = ""
                     /\ last.value = Bool(TRUE)
                     /\ last.logged = IF TokenShape(last.apiKey.chars)
                                      THEN <<>>
                                      ELSE <<WarnKeyFormat>>)
    /\ [][ValidateChangesNothing]_vars

C14_Witness ==
    /\ last.op = "generator.validateApiKey"
    /\ last.apiKey = Str(Garbage)
    /\ last.value = Bool(TRUE)
    /\ last.logged = <<WarnKeyFormat>>


(* A key that is a non-empty string. *)
NonEmptyKey(v) == v.type = "string" /\ v.chars # <<>>

(* C19: a new generator without a key has hasApiKey() false; after any     *)
(* sequence of setApiKey and clearApiKey calls hasApiKey() is true if and  *)
(* only if the most recent of them was a setApiKey with a non-empty key;   *)
(* clearApiKey resets isEncrypted to false.                                *)
C19_Lifecycle ==
    /\ (last.op = "hasApiKey" /\ keyLog.call = "constructor" /\ ~NonEmptyKey(keyLog.key))
          => last.value = Bool(FALSE)
    /\ (last.op = "hasApiKey" /\ keyLog.call = "setApiKey")
          => last.value = Bool(NonEmptyKey(keyLog.key))
    /\ (last.op = "hasApiKey" /\ keyLog.call = "clearApiKey")
          => last.value = Bool(FALSE)
    /\ last.op = "clearApiKey" => generator.isEncrypted = FALSE

(* C20: generateWithModel rejects with 'API key not configured' for every  *)
(* model id when no key is configured, rejects with 'Model <id> not found' *)
(* when a key is configured and the id is not in the model table, and      *)
(* issues no HTTP request in either case.                                  *)
C20_Preconditions ==
    /\ (last.op = "generateWithModel" /\ ~NonEmptyKey(last.apiKey))
          => /\ last.threw = ErrNotConfigured
             /\ last.fetched = {}
    /\ (last.op = "generateWithModel" /\ NonEmptyKey(last.apiKey)
                                      /\ last.modelId \notin DOMAIN Models)
          => /\ last.threw = "Model " \o last.modelId \o " not found"
             /\ last.fetched = {}


StorageOps == {"storeEncryptedKey", "getStoredEncryptedKey", "clearStoredKey"}

(* C12: on a working store getStoredEncryptedKey() returns the value of    *)
(* the most recent storeEncryptedKey if no clearStoredKey came after it    *)
(* and null otherwise; getStoredEncryptedKey never changes the slot;       *)
(* clearStoredKey is idempotent.                                           *)
C12_StorageSlot ==
    /\ []((last.op = "getStoredEncryptedKey" /\ ~slotLog.failed)
             => last.value = slotLog.written)
    /\ []((last.op = "clearStoredKey" /\ ~last.failed) => localStorage.item = Null)
    /\ [][(Idle /\ last'.op = "getStoredEncryptedKey")
             => localStorage' = localStorage]_vars
    /\ [][(Idle /\ last'.op = "clearStoredKey" /\ localStorage.item = Null)
             => localStorage' = localStorage]_vars

(* C13, as claimed: when the store fails, the accessor reports the failure *)
(* to its caller, without retrying, in a way that tells a failed read from *)
(* an absent value and a failed write from a successful one.               *)
C13_Surfaced ==
    (last.op \in StorageOps /\ last.failed)
        => /\ last.accesses = 1
           /\ \/ last.threw # ""
              \/ /\ last.op = "getStoredEncryptedKey"
                 /\ last.value # Null
                 /\ last.value.type # "string"
              \/ /\ last.op # "getStoredEncryptedKey"
                 /\ last.value # Bool(TRUE)

(* C13, amended: when the store fails, the accessor raises no error: it    *)
(* writes one line to the console, calls the store once, leaves the slot   *)
(* as it was, and returns false from storeEncryptedKey and clearStoredKey  *)
(* (true when the store works) and null from getStoredEncryptedKey, which  *)
(* is what it returns for an absent value.                                 *)
C13_FailuresSwallowed ==
    /\ []((last.op \in StorageOps /\ last.failed)
             => /\ last.threw = ""
                /\ last.accesses = 1
                /\ Len(last.logged) = 1
                /\ last.value = IF last.op = "getStoredEncryptedKey"
                                THEN Null
                                ELSE Bool(FALSE))
    /\ []((last.op \in StorageOps /\ ~last.failed)
             => /\ last.threw = ""
                /\ last.logged = <<>>
                /\ last.op # "getStoredEncryptedKey" => last.value = Bool(TRUE))
    /\ [][(Idle /\ last'.op \in StorageOps /\ last'.failed)
             => localStorage' = localStorage]_vars

C13_Witness ==
    /\ last.op = "getStoredEncryptedKey"
    /\ last.failed
    /\ last.value = Null
    /\ localStorage.item # Null
    /\ localStorage.item = slotLog.written

(* C17: deriveKey, encryptKey and decryptKey leave the storage slot and    *)
(* the fields of the SecureKeyManager unchanged, whether they succeed or   *)
(* fail; the slot is changed only by storeEncryptedKey and clearStoredKey; *)
(* neither a password nor a plaintext secret is in the store.              *)
C17_Stateless ==
    /\ [][(Idle /\ last'.op \in {"deriveKey", "encryptKey", "decryptKey"})
             => /\ manager' = manager
                /\ localStorage' = localStorage]_vars
    /\ [][localStorage' # localStorage
             => last'.op \in {"storeEncryptedKey", "clearStoredKey"}]_vars
    /\ [](manager = NewSecureKeyManager)
    /\ [](localStorage.item.type = "string"
             => \A k \in Calls : /\ localStorage.item.chars # encs[k].apiKey
                                 /\ localStorage.item.chars # encs[k].password)

C17_Witness ==
    /\ Decrypted
    /\ ~last.ok
    /\ encs # <<>>
    /\ localStorage.item = Str(encs[1].blob)
    /\ last.encryptedKey = encs[1].blob

C15_Advisory ==
    /\ (Encrypted /\ last.apiKey \in Tokens) => (last.ok /\ last.error = "")
    /\ \A k \in Calls :
          (Decrypted /\ last.encryptedKey = encs[k].blob
                     /\ last.password = encs[k].password /\ encs[k].apiKey \in Tokens)
              => (last.ok /\ last.error = "")
    /\ (last.op = "storeEncryptedKey" /\ ~last.failed)
          => /\ last.value = Bool(TRUE)
             /\ localStorage.item = last.encryptedKey
    /\ (last.op = "setApiKey" /\ NonEmptyKey(last.apiKey))
          => /\ last.threw = ""
             /\ last.value = Bool(TRUE)
             /\ generator.apiKey = last.apiKey
             /\ last.logged \in {<<>>, <<WarnKeyFormat>>}
             /\ TokenShape(last.apiKey.chars) => last.logged = <<>>
    /\ (last.op = "constructor" /\ NonEmptyKey(last.apiKey))
          => /\ last.threw = ""
             /\ generator.apiKey = last.apiKey
             /\ last.logged \in {<<>>, <<WarnKeyFormat>>}

C15_Witness ==
    /\ last.op = "setApiKey"
    /\ last.apiKey = Str(Garbage)
    /\ ~TokenShape(Garbage)
    /\ last.logged = <<WarnKeyFormat>>
    /\ generator.apiKey = Str(Garbage)
    /\ encs # <<>>
    /\ encs[1].apiKey = Garbage
    /\ localStorage.item = Str(encs[1].blob)


-----------------------------------------------------------------------------
(* Concurrent calls. *)

EncryptTasks == {i \in TaskIds : tasks[i].op = "encryptKey" /\ tasks[i].error = ""}
ReturnedEncrypts == {i \in EncryptTasks : Done(i)}
ReturnedDecrypts == {i \in TaskIds : tasks[i].op = "decryptKey" /\ Done(i)}

(* Each encryptKey call in flight or returned has a salt and a nonce no    *)
(* other call drew, and past its derivation the key of its own password    *)
(* and salt.                                                               *)
OwnNonces ==
    /\ \A i, j \in EncryptTasks :
          i # j => /\ tasks[i].salt # tasks[j].salt
                   /\ tasks[i].iv # tasks[j].iv
                   /\ tasks[i].salt # tasks[j].iv
    /\ \A i \in TaskIds :
          tasks[i].pc = "cipher" \/ (Done(i) /\ tasks[i].ok)
              => tasks[i].key = DeriveKey(tasks[i].password, tasks[i].salt)

(* What call i returned is what the call returns when nothing else is in   *)
(* flight: for encryptKey the blob made of its own arguments and draws,    *)
(* for decryptKey the outcome of decryptKey run in one piece.              *)
AsRunAlone ==
    /\ \A i \in ReturnedEncrypts :
          LET t == tasks[i]
          IN  /\ t.salt = GetRandomValues(SaltLength, t.rngBefore)
              /\ t.iv = GetRandomValues(IvLength, t.rngBefore + 1)
              /\ t.value = ArrayBufferToBase64(EncryptCombined(t.salt, t.iv, t.data))
              /\ [key |-> DeriveKey(t.password, t.salt), iv |-> t.iv,
                  pt |-> TextEncode(t.arg), ct |-> t.data] \in aead
    /\ \A i \in ReturnedDecrypts :
          LET t == tasks[i]
              r == DecryptKey(t.arg, t.password)
          IN  /\ t.ok = r.ok
              /\ t.error = r.error
              /\ t.value = r.value

(* Each returned blob decrypts to its own secret under its own password. *)
OwnSecret ==
    \A i \in ReturnedEncrypts :
        /\ DecryptKey(tasks[i].value, tasks[i].password).ok
        /\ DecryptKey(tasks[i].value, tasks[i].password).value = tasks[i].arg
        /\ \A j \in ReturnedDecrypts :
              (tasks[j].arg = tasks[i].value /\ tasks[j].password = tasks[i].password)
                  => (tasks[j].ok /\ tasks[j].value = tasks[i].arg)

(* C16: for any interleaving of the asynchronous steps of concurrent       *)
(* encryptKey / decryptKey calls on one SecureKeyManager, each call uses   *)
(* only its own salt, nonce and derived key and returns what it would      *)
(* return run alone; in particular each blob decrypts to its own secret    *)
(* under its own password.                                                 *)
C16_Independent == OwnNonces /\ AsRunAlone /\ OwnSecret


-----------------------------------------------------------------------------
(* The HTTP client. *)

Generated == last.op = "generateWithModel"

(* C21: in every request issued by generateWithModel, after any sequence   *)
(* of constructor / setApiKey / clearApiKey calls, the Authorization value *)
(* is the bearer token made of a plaintext secret, never of a blob that    *)
(* was configured with isEncrypted = true.                                 *)
C21_PlaintextBearer ==
    Generated =>
        \A r \in last.fetched :
            /\ r.authorization = Bearer \o StringOf(generator.apiKey)
            /\ ~generator.isEncrypted
            /\ generator.apiKey \notin {Str(b) : b \in Blobs}


Masked == last.op = "getMaskedApiKey"
PlaintextKey(v) == v.type = "string" /\ v.chars # <<>> /\ ~last.isEncrypted

(* C22: getMaskedApiKey returns 'Not configured' when no key is set,       *)
(* '[Encrypted]' when the key is flagged encrypted, the first 6 characters *)
(* + '...' + the last 4 characters for a plaintext key of more than 10     *)
(* characters and '***' for a plaintext key of 10 characters or fewer; it  *)
(* never changes the stored key.                                           *)
C22_Masked ==
    Masked =>
        /\ generator.apiKey = last.apiKey
        /\ generator.isEncrypted = last.isEncrypted
        /\ last.apiKey \in {Null, Undefined, Str(<<>>)} => last.value = Str(NotConfigured)
        /\ (NonEmptyKey(last.apiKey) /\ last.isEncrypted) => last.value = Str(EncryptedMark)
        /\ (PlaintextKey(last.apiKey) /\ Len(last.apiKey.chars) > 10)
              => /\ Len(last.value.chars) = 13
                 /\ \A i \in 1..6 : last.value.chars[i] = last.apiKey.chars[i]
                 /\ \A i \in 7..9 : last.value.chars[i] = 46
                 /\ \A i \in 1..4 : last.value.chars[9 + i]
                                       = last.apiKey.chars[Len(last.apiKey.chars) - 4 + i]
        /\ (PlaintextKey(last.apiKey) /\ Len(last.apiKey.chars) <= 10)
              => last.value = Str(<<42, 42, 42>>)

C22_Witness ==
    /\ Masked
    /\ PlaintextKey(last.apiKey)
    /\ Len(last.apiKey.chars) = 11
    /\ last.value.chars[10] = last.apiKey.chars[8]

(* C23: for every configured plaintext key, the string getMaskedApiKey     *)
(* returns is different from the key itself.                               *)
C23_NeverWholeKey ==
    (Masked /\ PlaintextKey(last.apiKey)) => last.value # last.apiKey


(* The preconditions of the last generateWithModel call held. *)
Admitted ==
    /\ Generated
    /\ last.apiKey \notin {Null, Str(<<>>)}
    /\ last.modelId \in DOMAIN Models

C27_AssignsFirst ==
    (/\ last.op = "setApiKey"
     /\ last.apiKey \in {Null, Str(<<>>)}
     /\ ~last.isEncrypted
     /\ generator.keyValidator)
        => /\ last.threw = ErrKeyRequired
           /\ generator.apiKey = last.apiKey
           /\ ~generator.isEncrypted
           /\ ~HasApiKey

C27_Witness ==
    /\ last.op = "setApiKey"
    /\ last.apiKey = Str(<<>>)
    /\ last.before = Str(ConformingToken)
    /\ last.threw = ErrKeyRequired
    /\ ~HasApiKey

(* C28: the constructor and setApiKey run the key validator if and only    *)
(* if the validateKey option is not false and the key is not flagged       *)
(* encrypted (and, for the constructor, a key was supplied); when          *)
(* validation is bypassed they never throw, whatever the key; the defaults *)
(* are validation on and isEncrypted false.                                *)
C28_Gating ==
    /\ last.op = "constructor"
          => /\ last.validated <=> /\ last.options.validateKey # Bool(FALSE)
                                   /\ last.options.isEncrypted # Bool(TRUE)
                                   /\ ~Falsy(last.apiKey)
             /\ ~last.validated => (last.threw = "" /\ last.logged = <<>>)
             /\ generator.keyValidator <=> last.options.validateKey # Bool(FALSE)
             /\ generator.isEncrypted <=> last.options.isEncrypted = Bool(TRUE)
    /\ last.op = "setApiKey"
          => /\ last.validated <=> /\ last.keyValidator
                                   /\ last.isEncrypted # Bool(TRUE)
             /\ ~last.validated => /\ last.threw = ""
                                   /\ last.logged = <<>>
                                   /\ last.value = Bool(TRUE)
             /\ generator.isEncrypted <=> last.isEncrypted = Bool(TRUE)
             /\ generator.keyValidator <=> last.keyValidator

C28_Witness ==
    /\ last.op = "setApiKey"
    /\ ~last.keyValidator
    /\ last.isEncrypted = Undefined
    /\ last.apiKey = Null
    /\ last.threw = ""


(* C29: decryptKey rejects an empty blob or an empty password before any   *)
(* decoding, key derivation or cipher call, with an input-required error   *)
(* that differs from the error of a failed decryption; every failure after *)
(* that check (decode, split, derivation, tag check) is reported with one  *)
(* and the same 'Decryption failed' error.                                 *)
C29_DecryptErrors ==
    /\ ErrDecryptRequired # ErrDecryptFailed
    /\ Decrypted =>
          /\ (last.encryptedKey = <<>> \/ last.password = <<>>)
                => /\ ~last.ok
                   /\ last.error = ErrDecryptRequired
                   /\ last.value = <<>>
          /\ (last.encryptedKey # <<>> /\ last.password # <<>> /\ ~last.ok)
                => last.error = ErrDecryptFailed

(* A text atob rejects, handed over with no password: the input check      *)
(* answers, not the decoder.                                               *)
C29_Witness ==
    /\ Decrypted
    /\ ~Atob(last.encryptedKey).ok
    /\ last.password = <<>>
    /\ last.error = ErrDecryptRequired


-----------------------------------------------------------------------------
(* generateWithAllModels. *)

Generating == batch.op = "generateWithAllModels"
Resolved == Generating /\ batch.pc = "fulfilled"
Slots == IF Generating THEN 1..Len(batch.slots) ELSE {}
KeyAtStart == batch.apiKey \notin {Null, Str(<<>>)}

(* What generateWithAllModels holds for position i when that model's call  *)
(* is looked at by itself.                                                 *)
OwnResult(i) ==
    LET slot == batch.slots[i]
        id == ModelsToUse(batch.selectedModels)[i]
    IN  /\ slot.modelId = id
        /\ ~KeyAtStart => batch.value[i] = [success |-> FALSE, error |-> ErrNotConfigured]
        /\ (KeyAtStart /\ ~ModelLookup(id).found)
              => batch.value[i] = [success |-> FALSE, error |-> ErrModelNotFound(id)]
        /\ (KeyAtStart /\ ModelLookup(id).found)
              => /\ batch.value[i] = slot.value
                 /\ batch.value[i].model = ModelLookup(id).name

(* C24: generateWithAllModels starts the requests of all selected models   *)
(* together and always resolves, whatever the key, the model ids and the   *)
(* outcome of each request, with one result per selected model in the      *)
(* order of the selection (all models of the table when the selection is   *)
(* null); the failure of one model does not prevent or alter the results   *)
(* of the others.                                                          *)
C24_AllSettled ==
    /\ Generating =>
          /\ batch.pc # "rejected"
          /\ Len(batch.slots) = Len(ModelsToUse(batch.selectedModels))
          /\ batch.selectedModels = Null => Len(batch.slots) = Cardinality(DOMAIN Models)
          /\ \A i \in Slots :
                (KeyAtStart /\ batch.slots[i].modelId \in DOMAIN Models)
                    => \E r \in requests :
                          /\ r.url = Models[batch.slots[i].modelId].endpoint
                          /\ r.authorization = Bearer \o StringOf(batch.apiKey)
    /\ Resolved =>
          /\ Len(batch.value) = Len(ModelsToUse(batch.selectedModels))
          /\ \A i \in Slots : OwnResult(i)

(* A model that was rejected stands before one that delivered an image. *)
C24_Witness ==
    /\ Resolved
    /\ Len(batch.value) = 2
    /\ batch.slots[1].state = "rejected"
    /\ ~batch.value[1].success
    /\ batch.value[2].success

Statuses(i) == [k \in 1..Len(batch.slots[i].trace) |-> batch.slots[i].trace[k].status]
Terminals(i) ==
    {k \in 1..Len(batch.slots[i].trace) : Statuses(i)[k] \in {"complete", "error"}}
Loading(i) ==
    /\ Generating
    /\ i \in Slots
    /\ \E k \in 1..Len(batch.slots[i].trace) : Statuses(i)[k] = "loading"
Terminal(i) == Generating /\ i \in Slots /\ Terminals(i) # {}

(* The order within the trace of one model: 'loading' first, the request   *)
(* after it, at most one terminal status, which tells the result.          *)
ProgressOrder ==
    \A i \in Slots :
        batch.onProgress =>
            /\ Loading(i)
            /\ Statuses(i)[1] = "loading"
            /\ Cardinality(Terminals(i)) <= 1
            /\ \A k \in Terminals(i) :
                  /\ k = Len(batch.slots[i].trace)
                  /\ batch.slots[i].trace[k].result = batch.slots[i].value
                  /\ Statuses(i)[k] = "complete" <=> batch.slots[i].value.success

(* C25: for every selected model and every key state onProgress is called  *)
(* with 'loading' before the model's request is made and later exactly     *)
(* once with a terminal status, 'complete' when the result has success     *)
(* true and 'error' otherwise, carrying the result; no terminal status     *)
(* comes before 'loading', and every model that reported 'loading'         *)
(* eventually reports a terminal status.                                   *)
C25_Progress ==
    /\ []ProgressOrder
    /\ \A i \in 1..Len(ModelKeys) : Loading(i) ~> Terminal(i)


-----------------------------------------------------------------------------
(* saveAllImages. *)

Saving == batch.op = "saveAllImages"

(* The events of the trace in the order a loop that handles one image      *)
(* after the other leaves them: save 1, saved 1, delay 1, save 2, ...      *)
InTurn ==
    \A k \in 1..Len(batch.trace) :
        /\ batch.trace[k].i = ((k - 1) \div 3) + 1
        /\ batch.trace[k].event = CASE k % 3 = 1 -> "save"
                                    [] k % 3 = 2 -> "saved"
                                    [] OTHER -> "delay"

(* C30: saveAllImages handles the images strictly one after another in     *)
(* input order (the save of image i+1 starts only after the save of image  *)
(* i has finished and the delay has elapsed) and, for any list of          *)
(* generation results including failed ones, resolves to one save result   *)
(* per image in the same order; a failed save of one image does not stop   *)
(* the saves of the following images.                                      *)
C30_OneByOne ==
    Saving =>
        /\ InTurn
        /\ batch.pc # "rejected"
        /\ batch.pc = "fulfilled"
              => /\ Len(batch.value) = Len(batch.images)
                 /\ Len(batch.trace) = 3 * Len(batch.images)

=============================================================================
